---------------------------- MODULE Spec2Model ----------------------------
(***************************************************************************)
(* A model of the mobile in-app-purchase order placement pipeline of the   *)
(* ecommerce service:                                                       *)
(*   ecommerce/extensions/iap/api/v1/views.py                               *)
(*     MobileCoursePurchaseExecutionView (post, _get_basket,                *)
(*     payment_processor)                                                   *)
(*   ecommerce/extensions/payment/models.py                                 *)
(*     PaymentProcessorResponse                                             *)
(*   ecommerce/programs/conditions.py                                       *)
(*     ProgramCourseRunSeatsCondition.is_satisfied, get_applicable_skus,    *)
(*     can_apply_condition, get_applicable_lines, consume_items             *)
(*   ecommerce/extensions/checkout/signals.py, ecommerce/sailthru/signals.py*)
(*     the receivers of post_checkout                                       *)
(*   ecommerce/extensions/payment/models.py                                 *)
(*     SDNFallbackMetadata.swap_all_states                                  *)
(*                                                                         *)
(* Every request is handled by its own worker; the workers share only the  *)
(* database (baskets, orders, payment sources, payment processor           *)
(* responses).  The view runs with transaction.non_atomic_requests, so     *)
(* each database write outside an explicit transaction.atomic() block is   *)
(* committed at once, and the writes made inside the atomic block around   *)
(* handle_payment are committed or rolled back when the block is left.     *)
(*                                                                         *)
(* handle_payment, create_order and handle_post_order are methods of       *)
(* EdxOrderPlacementMixin (ecommerce/extensions/checkout/mixins.py), whose *)
(* source is not part of the files modelled here; they are modelled from   *)
(* the written specification (sections 4.2 and 4.3).                        *)
(***************************************************************************)
EXTENDS Integers, Sequences, FiniteSets, TLC

\* ------------------------------------------------------------------ bounds

\* Total number of purchase-execution requests served in one behaviour.
MaxAttempts == 2

\* The request-handling workers (one per in-flight request).
Workers == {"w1", "w2"}

\* Authenticated users.
Users == {"u1", "u2"}

\* Baskets in the database, and their owners (Basket.owner).
BasketIds == {1, 2}

BasketOwner(b) == IF b = 1 THEN "u1" ELSE "u2"

\* receipt.get('basket_id') of a request that carries no basket id.
NoBasketId == 0

\* Basket ids a request may carry: none, or the id of a basket in the
\* database (the requester's own or another user's).
RequestBasketIds == {NoBasketId} \cup BasketIds

\* receipt['transactionId']
TransactionIds == {"t1", "t2"}

\* IOSIAP.NAME and AndroidIAP.NAME
IOSIAP_NAME == "ios-iap"

AndroidIAP_NAME == "android-iap"

\* request.data['payment_processor']
ProcessorNames == {IOSIAP_NAME, AndroidIAP_NAME}

\* The receipts the stores issue: a transaction id belongs to the store that
\* issued it.
Receipts ==
    {[transactionId |-> "t1", payment_processor |-> IOSIAP_NAME],
     [transactionId |-> "t2", payment_processor |-> AndroidIAP_NAME]}

\* The requests the view can receive: request.user and request.data.
Requests ==
    {[user |-> u, basket_id |-> b, transactionId |-> r.transactionId,
      payment_processor |-> r.payment_processor] :
        u \in Users, b \in RequestBasketIds, r \in Receipts}

\* ------------------------------------------------------------------- state

VARIABLES
    basketStatus,   \* database: Basket.status of every basket
    orders,         \* database: the Order rows, [basket, by]
    sources,        \* database: the payment Source rows, [transactionId, basket, by]
    audit,          \* database: the PaymentProcessorResponse rows, in insertion order
    fulfilled,      \* the orders whose post-order operations completed
    nextAttempt,    \* number of the next request
    pc,             \* per worker: position in post()
    req,            \* per worker: the request being served
    id,             \* per worker: number of the request being served
    basket,         \* per worker: the basket object _get_basket returned
    trace,          \* per worker: the stages entered, each with its result
    tx,             \* per worker: writes of the open transaction.atomic() block
    order,          \* per worker: the order create_order returned
    resp,           \* per worker: the JsonResponse returned
    evalPc,         \* is_satisfied: position in the evaluation
    evalBasket,     \* is_satisfied: the SKUs of the lines of the basket passed in
    program,        \* is_satisfied: the program the discovery service returned
    enrollments,    \* is_satisfied: the enrollments the enrollment service returned
    basket_skus,    \* is_satisfied: its copy of the basket's SKUs
    courseIdx,      \* is_satisfied: index of the next course of the loop
    retval,         \* is_satisfied: the value returned or the exception raised
    calls,          \* is_satisfied: the calls made to external services, with their outcomes
    applyPc,        \* offer application: position (get_applicable_lines, consume_items)
    applyLines,     \* offer application: the lines of the basket, in basket order
    applyFetch,     \* offer application: what get_program answered
    most_expensive_first, \* get_applicable_lines: its keyword argument
    line_tuples,    \* get_applicable_lines: the (price, line) tuples returned
    affected_lines, \* consume_items: the lines of its last call
    applications,   \* offer application: number of consume_items calls so far
    sigPc,          \* post_checkout: position of the dispatch of the signal
    sigOrder,       \* post_checkout: the order the signal is sent for
    sigFlags,       \* post_checkout: the switches ENABLE_NOTIFICATIONS and SAILTHRU_ENABLE
    ran,            \* post_checkout: the receivers that have run, in order
    handlerRaised,  \* post_checkout: the receivers in whose body an exception was raised
    surfaced,       \* post_checkout: the exception that reached the sender of the signal
    tracked,        \* the calls of track_segment_event
    lookups,        \* the calls of get_credit_provider_details
    notified,       \* the calls of send_notification
    dispatched,     \* the calls of update_course_enrollment.delay
    logged,         \* the messages logged by the receivers
    sdnRows,        \* database: the SDNFallbackMetadata rows, [id, import_state]
    swapPc,         \* swap_all_states: position in the call
    snapshot,       \* swap_all_states: the rows when its transaction began
    inserted,       \* swap_all_states: the rows others inserted since its transaction began
    nextRowId,      \* id of the next SDNFallbackMetadata row
    addPc,          \* add items: position in get()
    addReq,         \* add items: the request
    available_products,\* add items: the products passed on to prepare_basket
    prepared,       \* add items: the calls of prepare_basket, each with its products
    mobileBasket,   \* database: the products in the basket of the mobile user
    basketBefore,   \* add items: the basket when the request arrived
    addResp,        \* add items: the JsonResponse returned
    prevPc,         \* preview: position in preview()
    prevReq,        \* preview: the query and seat_types parameters
    page,           \* preview: the page to request next, 0 for None
    course_ids,     \* preview: the keys of the results so far
    fetched,        \* preview: the calls of course_runs.get and their answers
    prevResp        \* preview: the Response returned

dbVars == <<basketStatus, orders, sources, audit, fulfilled>>

viewVars == <<nextAttempt, pc, req, id, basket, trace, tx, order, resp>>

condVars == <<evalPc, evalBasket, program, enrollments, basket_skus, courseIdx, retval, calls>>

applyVars == <<applyPc, applyLines, applyFetch, most_expensive_first, line_tuples,
               affected_lines, applications>>

\* The variables of the components other than the view and is_satisfied.
signalVars == <<sigPc, sigOrder, sigFlags, ran, handlerRaised, surfaced, tracked,
                lookups, notified, dispatched, logged>>

sdnVars == <<sdnRows, swapPc, snapshot, inserted, nextRowId>>

addVars == <<addPc, addReq, available_products, prepared, mobileBasket, basketBefore, addResp>>

previewVars == <<prevPc, prevReq, page, course_ids, fetched, prevResp>>

restVars == <<applyVars, signalVars, sdnVars, addVars, previewVars>>

vars == <<dbVars, viewVars, condVars, restVars>>

NoRequest == [user |-> "none", basket_id |-> NoBasketId,
              transactionId |-> "none", payment_processor |-> "none"]

NoBasket == [id |-> NoBasketId, status |-> "none", offers_applied |-> FALSE]

NoOrder == [basket |-> NoBasketId, by |-> 0]

NoResponse == [status |-> 0, body |-> "none", order |-> NoOrder]

EmptyTx == [audit |-> <<>>, sources |-> {}]

\* JsonResponse({'error': ...}, status=s)
ErrorResponse(s) == [status |-> s, body |-> "error", order |-> NoOrder]

\* JsonResponse({'order_data': MobileOrderSerializer(order).data}, status=200)
OrderResponse(o) == [status |-> 200, body |-> "order_data", order |-> o]

Stage(name, result) == [stage |-> name, result |-> result]

Last(s) == s[Len(s)]

TypeOK ==
    /\ basketStatus \in [BasketIds -> {"Open", "Submitted"}]
    /\ orders \subseteq [basket : BasketIds, by : 1..MaxAttempts]
    /\ sources \subseteq [transactionId : TransactionIds, basket : BasketIds, by : 1..MaxAttempts]
    /\ audit \in Seq([processor_name : ProcessorNames, transaction_id : TransactionIds,
                      basket : BasketIds, response : {"ok", "PaymentError", "Redundant", "Error"},
                      by : 1..MaxAttempts])
    /\ fulfilled \subseteq orders
    /\ nextAttempt \in 1..(MaxAttempts + 1)
    /\ pc \in [Workers -> {"idle", "get_basket", "pay", "atomic", "create", "post", "return"}]
    /\ req \in [Workers -> Requests \cup {NoRequest}]
    /\ id \in [Workers -> 0..MaxAttempts]
    /\ basket \in [Workers -> {NoBasket} \cup
            [id : BasketIds, status : {"Open", "Submitted"}, offers_applied : BOOLEAN]]
    /\ \A w \in Workers :
        /\ trace[w] \in Seq([stage : {"get_basket", "handle_payment", "create_order",
                                      "handle_post_order"},
                             result : {"ok", "ObjectDoesNotExist", "PaymentError", "Redundant",
                                       "AlreadyPlaced", "Error"}])
        /\ order[w] \in {NoOrder} \cup orders
        /\ resp[w] \in {NoResponse, ErrorResponse(400), ErrorResponse(409), ErrorResponse(200)}
                \cup {OrderResponse(o) : o \in orders}

ViewInit ==
    /\ basketStatus = [b \in BasketIds |-> "Open"]
    /\ orders = {}
    /\ sources = {}
    /\ audit = <<>>
    /\ fulfilled = {}
    /\ nextAttempt = 1
    /\ pc = [w \in Workers |-> "idle"]
    /\ req = [w \in Workers |-> NoRequest]
    /\ id = [w \in Workers |-> 0]
    /\ basket = [w \in Workers |-> NoBasket]
    /\ trace = [w \in Workers |-> <<>>]
    /\ tx = [w \in Workers |-> EmptyTx]
    /\ order = [w \in Workers |-> NoOrder]
    /\ resp = [w \in Workers |-> NoResponse]

\* No program, no result.
NoProgram == [applicable_seat_types |-> {}, courses |-> <<>>]

NoResult == [value |-> "none", raised |-> "none"]

\* No evaluation of the condition is under way.
CondInit ==
    /\ evalPc = "idle"
    /\ evalBasket = {}
    /\ program = NoProgram
    /\ enrollments = {}
    /\ basket_skus = {}
    /\ courseIdx = 0
    /\ retval = NoResult
    /\ calls = <<>>

\* get_program has not been called.
NoFetch == [program |-> NoProgram, error |-> "none"]

\* No offer is being applied.
ApplyInit ==
    /\ applyPc = "idle"
    /\ applyLines = <<>>
    /\ applyFetch = NoFetch
    /\ most_expensive_first = TRUE
    /\ line_tuples = <<>>
    /\ affected_lines = {}
    /\ applications = 0

NoSigOrder == [total_excl_tax |-> 0, lines |-> <<>>]

NoFlags == [ENABLE_NOTIFICATIONS |-> FALSE, SAILTHRU_ENABLE |-> FALSE]

\* No post_checkout signal is being dispatched.
SignalInit ==
    /\ sigPc = "idle"
    /\ sigOrder = NoSigOrder
    /\ sigFlags = NoFlags
    /\ ran = <<>>
    /\ handlerRaised = {}
    /\ surfaced = "none"
    /\ tracked = <<>>
    /\ lookups = <<>>
    /\ notified = <<>>
    /\ dispatched = <<>>
    /\ logged = {}

\* The SDNFallbackMetadata table is empty and no swap is under way.
SdnInit ==
    /\ sdnRows = {}
    /\ swapPc = "idle"
    /\ snapshot = {}
    /\ inserted = {}
    /\ nextRowId = 1

\* No add-items request is being served; the basket of the user is empty.
AddInit ==
    /\ addPc = "idle"
    /\ addReq = [skus |-> <<>>, available_to_buy |-> {}]
    /\ available_products = {}
    /\ prepared = <<>>
    /\ mobileBasket = {}
    /\ basketBefore = {}
    /\ addResp = [status |-> 0, body |-> "none"]

\* No preview is being served.
PreviewInit ==
    /\ prevPc = "idle"
    /\ prevReq = [query |-> "none", seat_types |-> "none"]
    /\ page = 0
    /\ course_ids = <<>>
    /\ fetched = <<>>
    /\ prevResp = [status |-> 0, data |-> "none"]

Init == ViewInit /\ CondInit /\ ApplyInit /\ SignalInit /\ SdnInit /\ AddInit /\ PreviewInit


\* ------------------------------------------------- the view's own decisions

\* MobileCoursePurchaseExecutionView.payment_processor: IOSIAP when the
\* request names it, AndroidIAP for anything else.
payment_processor(data) ==
    IF data.payment_processor = IOSIAP_NAME THEN IOSIAP_NAME ELSE AndroidIAP_NAME

\* request.user.baskets: the baskets owned by the requester.
UserBaskets(user) == {b \in BasketIds : BasketOwner(b) = user}

\* BasketLookup over all baskets (Basket.objects.get) instead of the
\* requester's own.
BasketLookup_AnyOwner(user, basket_id) ==
    IF basket_id \in BasketIds THEN "found" ELSE "ObjectDoesNotExist"

\* request.user.baskets.get(id=basket_id): the basket, or ObjectDoesNotExist.
BasketLookup(user, basket_id) ==
    IF basket_id \in UserBaskets(user) THEN "found" ELSE "ObjectDoesNotExist"

\* post(), lines 146-148: a request without a basket id is answered at once.
BasketIdMissing(receipt) == receipt.basket_id = NoBasketId

\* GetBasketExit with the bare except clause swallowing the exception.
GetBasketExit_SwallowError(result) ==
    IF result \in {"ok", "Error"}
    THEN [next |-> "pay", response |-> NoResponse]
    ELSE [next |-> "return", response |-> ErrorResponse(400)]

\* post(), lines 151-160: a basket that was obtained goes on to payment; both
\* except clauses answer 400.
GetBasketExit(result) ==
    IF result = "ok"
    THEN [next |-> "pay", response |-> NoResponse]
    ELSE [next |-> "return", response |-> ErrorResponse(400)]

\* PaymentExit without the except clause for RedundantPaymentNotificationError:
\* the error reaches the bare except clause.
PaymentExit_NoRedundantClause(result) ==
    CASE result = "ok" ->
            [commit |-> TRUE, next |-> "create", response |-> NoResponse]
      [] result = "PaymentError" ->
            [commit |-> TRUE, next |-> "return", response |-> ErrorResponse(400)]
      [] OTHER ->
            [commit |-> FALSE, next |-> "return", response |-> ErrorResponse(400)]

\* PaymentExit with the PaymentError clause not returning.
PaymentExit_SwallowPaymentError(result) ==
    CASE result \in {"ok", "PaymentError"} ->
            [commit |-> TRUE, next |-> "create", response |-> NoResponse]
      [] result = "Redundant" ->
            [commit |-> TRUE, next |-> "return", response |-> ErrorResponse(409)]
      [] OTHER ->
            [commit |-> FALSE, next |-> "return", response |-> ErrorResponse(400)]

\* PaymentExit with the bare except clause inside the atomic block, so that
\* the block commits whatever handle_payment raised.
PaymentExit_CommitOnError(result) ==
    CASE result = "ok" ->
            [commit |-> TRUE, next |-> "create", response |-> NoResponse]
      [] result = "Redundant" ->
            [commit |-> TRUE, next |-> "return", response |-> ErrorResponse(409)]
      [] OTHER ->
            [commit |-> TRUE, next |-> "return", response |-> ErrorResponse(400)]

\* PaymentExit without the bare except clause around the atomic block: the
\* exception leaves post() and the view returns no response of its own.
PaymentExit_Propagate(result) ==
    CASE result = "ok" ->
            [commit |-> TRUE, next |-> "create", response |-> NoResponse]
      [] result = "Redundant" ->
            [commit |-> TRUE, next |-> "return", response |-> ErrorResponse(409)]
      [] result = "PaymentError" ->
            [commit |-> TRUE, next |-> "return", response |-> ErrorResponse(400)]
      [] OTHER ->
            [commit |-> FALSE, next |-> "return", response |-> NoResponse]

\* post(), lines 162-174: how the atomic block around handle_payment is left.
\* An exception caught inside the block is answered from inside it, so the
\* block is left normally and commits; any other exception leaves the block
\* as an exception, which rolls it back.
PaymentExit(result) ==
    CASE result = "ok" ->
            [commit |-> TRUE, next |-> "create", response |-> NoResponse]
      [] result = "Redundant" ->
            [commit |-> TRUE, next |-> "return", response |-> ErrorResponse(409)]
      [] result = "PaymentError" ->
            [commit |-> TRUE, next |-> "return", response |-> ErrorResponse(400)]
      [] OTHER ->
            [commit |-> FALSE, next |-> "return", response |-> ErrorResponse(400)]

\* CreateOrderExit with the except clause not returning.
CreateOrderExit_IgnoreFailure(result, o) ==
    [next |-> "post", response |-> NoResponse,
     order |-> IF result = "ok" THEN o ELSE NoOrder]

\* post(), lines 176-181: an exception of create_order ends the request.
CreateOrderExit(result, o) ==
    IF result = "ok"
    THEN [next |-> "post", response |-> NoResponse, order |-> o]
    ELSE [next |-> "return", response |-> ErrorResponse(400), order |-> NoOrder]

\* PostOrderExit answering a failed handle_post_order as a server error.
PostOrderExit_ServerError(result, o) ==
    IF result = "ok" THEN OrderResponse(o) ELSE ErrorResponse(500)

\* post(), lines 183-189: the answer after handle_post_order.
PostOrderExit(result, o) ==
    IF result = "ok" THEN OrderResponse(o) ELSE ErrorResponse(200)

\* ------------------------------------------------ the order placement mixin

\* handle_payment(receipt, basket): the results the call can have.  A replay
\* of a transaction id that was already processed is redundant; otherwise
\* the processor accepts or declines; the transport can fail at any time.
HandlePaymentResults(receipt) ==
    {"PaymentError", "Error"} \cup
    (IF \E s \in sources : s.transactionId = receipt.transactionId
     THEN {"Redundant"} ELSE {"ok"})

\* The processor response every handle_payment call records.
ProcessorResponse(processor, receipt, b, result, by) ==
    [processor_name |-> processor, transaction_id |-> receipt.transactionId,
     basket |-> b, response |-> result, by |-> by]

\* The database writes of one handle_payment call: one processor response,
\* and the payment source of an accepted payment.
HandlePaymentWrites(processor, receipt, b, result, by) ==
    [audit |-> <<ProcessorResponse(processor, receipt, b, result, by)>>,
     sources |-> IF result = "ok"
                 THEN {[transactionId |-> receipt.transactionId, basket |-> b, by |-> by]}
                 ELSE {}]

\* The guard of create_order: a basket that already bears an order is refused.
AlreadyPlaced(b) == \E o \in orders : o.basket = b

\* CreateOrderResults without the guard.
CreateOrderResults_NoGuard(bk) == {"ok", "Error"}

\* CreateOrderResults with the guard reading the basket object in memory
\* instead of the database.
CreateOrderResults_StaleGuard(bk) ==
    IF bk.status = "Submitted" THEN {"AlreadyPlaced"} ELSE {"ok", "Error"}

\* create_order(request, basket): the results the call can have.  The guard
\* is decided by the database inside the order's transaction.
CreateOrderResults(bk) ==
    IF AlreadyPlaced(bk.id) THEN {"AlreadyPlaced"} ELSE {"ok", "Error"}

\* handle_post_order(order): the results the call can have.
HandlePostOrderResults == {"ok", "Error"}

\* ------------------------------------------------------------------ actions

\* post(), lines 140-149: a worker receives a request.
Post(w) ==
    /\ pc[w] = "idle"
    /\ nextAttempt <= MaxAttempts
    /\ \E r \in Requests :
        /\ req' = [req EXCEPT ![w] = r]
        /\ IF BasketIdMissing(r)
           THEN /\ resp' = [resp EXCEPT ![w] = ErrorResponse(400)]
                /\ pc' = [pc EXCEPT ![w] = "return"]
           ELSE /\ resp' = [resp EXCEPT ![w] = NoResponse]
                /\ pc' = [pc EXCEPT ![w] = "get_basket"]
    /\ id' = [id EXCEPT ![w] = nextAttempt]
    /\ nextAttempt' = nextAttempt + 1
    /\ basket' = [basket EXCEPT ![w] = NoBasket]
    /\ trace' = [trace EXCEPT ![w] = <<>>]
    /\ tx' = [tx EXCEPT ![w] = EmptyTx]
    /\ order' = [order EXCEPT ![w] = NoOrder]
    /\ UNCHANGED dbVars
    /\ UNCHANGED <<condVars, restVars>>

\* _get_basket, lines 124-130, for a basket that was found: the offers are
\* applied to the basket object, then the organization attribute is added.
\* Either call can raise.
GetBasketResults == {"ok", "Error"}

\* LoadedBasket without the Applicator().apply call.
LoadedBasket_NoApplicator(b) ==
    IF b \in BasketIds
    THEN [id |-> b, status |-> basketStatus[b], offers_applied |-> FALSE]
    ELSE NoBasket

\* The basket object _get_basket returns: the row as read from the database,
\* with the offers applied to it.
LoadedBasket(b) ==
    IF b \in BasketIds
    THEN [id |-> b, status |-> basketStatus[b], offers_applied |-> TRUE]
    ELSE NoBasket

\* post(), lines 151-160, with _get_basket, lines 112-130.
GetBasket(w) ==
    /\ pc[w] = "get_basket"
    /\ \E result \in (IF BasketLookup(req[w].user, req[w].basket_id) = "found"
                      THEN GetBasketResults ELSE {"ObjectDoesNotExist"}) :
        LET exit == GetBasketExit(result) IN
        /\ trace' = [trace EXCEPT ![w] = Append(@, Stage("get_basket", result))]
        /\ basket' = [basket EXCEPT ![w] =
                IF exit.next = "pay" THEN LoadedBasket(req[w].basket_id) ELSE NoBasket]
        /\ pc' = [pc EXCEPT ![w] = exit.next]
        /\ resp' = [resp EXCEPT ![w] = exit.response]
    /\ UNCHANGED <<dbVars, nextAttempt, req, id, tx, order>>
    /\ UNCHANGED <<condVars, restVars>>

\* post(), lines 163-165: handle_payment runs inside transaction.atomic();
\* its writes stay in the open transaction.
HandlePayment(w) ==
    /\ pc[w] = "pay"
    /\ \E result \in HandlePaymentResults(req[w]) :
        /\ trace' = [trace EXCEPT ![w] = Append(@, Stage("handle_payment", result))]
        /\ tx' = [tx EXCEPT ![w] =
                    HandlePaymentWrites(payment_processor(req[w]), req[w],
                                        basket[w].id, result, id[w])]
    /\ pc' = [pc EXCEPT ![w] = "atomic"]
    /\ UNCHANGED <<dbVars, nextAttempt, req, id, basket, order, resp>>
    /\ UNCHANGED <<condVars, restVars>>

\* post(), lines 162-174: the atomic block is left.
ExitAtomic(w) ==
    /\ pc[w] = "atomic"
    /\ LET exit == PaymentExit(Last(trace[w]).result) IN
        /\ IF exit.commit
           THEN /\ audit' = audit \o tx[w].audit
                /\ sources' = sources \cup tx[w].sources
           ELSE UNCHANGED <<audit, sources>>
        /\ resp' = [resp EXCEPT ![w] = exit.response]
        /\ pc' = [pc EXCEPT ![w] = exit.next]
    /\ tx' = [tx EXCEPT ![w] = EmptyTx]
    /\ UNCHANGED <<basketStatus, orders, fulfilled, nextAttempt, req, id, basket, trace, order>>
    /\ UNCHANGED <<condVars, restVars>>

\* post(), lines 176-181: create_order places the order and freezes the
\* basket in one transaction, or raises and commits nothing.
CreateOrder(w) ==
    /\ pc[w] = "create"
    /\ \E result \in CreateOrderResults(basket[w]) :
        LET o == [basket |-> basket[w].id, by |-> id[w]]
            exit == CreateOrderExit(result, o) IN
        /\ trace' = [trace EXCEPT ![w] = Append(@, Stage("create_order", result))]
        /\ IF result = "ok"
           THEN /\ orders' = orders \cup {o}
                /\ basketStatus' = [basketStatus EXCEPT ![basket[w].id] = "Submitted"]
           ELSE UNCHANGED <<orders, basketStatus>>
        /\ order' = [order EXCEPT ![w] = exit.order]
        /\ resp' = [resp EXCEPT ![w] = exit.response]
        /\ pc' = [pc EXCEPT ![w] = exit.next]
    /\ UNCHANGED <<sources, audit, fulfilled, nextAttempt, req, id, basket, tx>>
    /\ UNCHANGED <<condVars, restVars>>

\* post(), lines 183-189: the post-order operations, then the answer.
HandlePostOrder(w) ==
    /\ pc[w] = "post"
    /\ \E result \in HandlePostOrderResults :
        /\ trace' = [trace EXCEPT ![w] = Append(@, Stage("handle_post_order", result))]
        /\ fulfilled' = IF result = "ok" THEN fulfilled \cup {order[w]} ELSE fulfilled
        /\ resp' = [resp EXCEPT ![w] = PostOrderExit(result, order[w])]
    /\ pc' = [pc EXCEPT ![w] = "return"]
    /\ UNCHANGED <<basketStatus, orders, sources, audit, nextAttempt, req, id, basket, tx, order>>
    /\ UNCHANGED <<condVars, restVars>>

\* The response is sent and the worker is free for the next request.
Return(w) ==
    /\ pc[w] = "return"
    /\ pc' = [pc EXCEPT ![w] = "idle"]
    /\ req' = [req EXCEPT ![w] = NoRequest]
    /\ id' = [id EXCEPT ![w] = 0]
    /\ basket' = [basket EXCEPT ![w] = NoBasket]
    /\ trace' = [trace EXCEPT ![w] = <<>>]
    /\ order' = [order EXCEPT ![w] = NoOrder]
    /\ resp' = [resp EXCEPT ![w] = NoResponse]
    /\ UNCHANGED <<dbVars, nextAttempt, tx>>
    /\ UNCHANGED <<condVars, restVars>>

Next ==
    \E w \in Workers :
        \/ Post(w)
        \/ GetBasket(w)
        \/ HandlePayment(w)
        \/ ExitAtomic(w)
        \/ CreateOrder(w)
        \/ HandlePostOrder(w)
        \/ Return(w)

Spec == Init /\ [][Next]_vars

\* The steps of post() after the request was received.  A worker runs its
\* request to the end: every call post() makes returns or raises.
Serve(w) ==
    \/ GetBasket(w)
    \/ HandlePayment(w)
    \/ ExitAtomic(w)
    \/ CreateOrder(w)
    \/ HandlePostOrder(w)

FairSpec == Spec /\ \A w \in Workers : WF_vars(Serve(w))


\* ------------------------------------------------------------------- claims

\* The stages of post(), in the order of the code.
StageOrder == <<"get_basket", "handle_payment", "create_order", "handle_post_order">>

\* The worker has its response and has not yet sent it.
Responded(w) == pc[w] = "return"

\* The result of the i-th stage the worker entered ("none" if it did not).
ResultOf(w, i) == IF Len(trace[w]) >= i THEN trace[w][i].result ELSE "none"

OrdersBy(n) == {o \in orders : o.by = n}

OrdersFor(b) == {o \in orders : o.basket = b}

AuditBy(n) == {i \in DOMAIN audit : audit[i].by = n}

SourcesBy(n) == {x \in sources : x.by = n}

FailureResponse(r) == r.body = "error" /\ r.status \in {400, 409}

\* C1: the stages of every request are entered in the order get_basket,
\* handle_payment, create_order, handle_post_order; a stage is entered only
\* when every earlier stage returned normally, and handle_post_order only
\* with the order create_order returned.
C1_StagesInOrder ==
    \A w \in Workers :
        /\ Len(trace[w]) <= Len(StageOrder)
        /\ \A i \in 1..Len(trace[w]) :
            /\ trace[w][i].stage = StageOrder[i]
            /\ i < Len(trace[w]) => trace[w][i].result = "ok"
        /\ Len(trace[w]) = 4 => order[w] \in OrdersBy(id[w])

\* One request ran through all four stages while another one left at a
\* failed handle_payment.
C1_Witness ==
    \E w1, w2 \in Workers :
        /\ Len(trace[w1]) = 4 /\ Responded(w1)
        /\ Responded(w2) /\ ResultOf(w2, 2) = "PaymentError"

\* C2: a basket never has more than one order, and a request made for a basket
\* that was already ordered when it was loaded ends with a failure response
\* and creates no order.
C2_OneOrderPerBasket ==
    /\ \A b \in BasketIds : Cardinality(OrdersFor(b)) <= 1
    /\ \A w \in Workers :
        (Responded(w) /\ basket[w].status = "Submitted")
            => FailureResponse(resp[w]) /\ OrdersBy(id[w]) = {}

\* A request for an already ordered basket paid with a fresh transaction id,
\* reached create_order and was refused.
C2_Witness ==
    \E w \in Workers :
        /\ Responded(w) /\ basket[w].status = "Submitted"
        /\ ResultOf(w, 3) = "AlreadyPlaced"
        /\ Cardinality(OrdersFor(basket[w].id)) = 1

\* C3: of two requests for the same basket that are in flight together at
\* most one creates an order, the other one ends with a failure response, and
\* no two orders share a basket.
C3_ConcurrentOneOrder ==
    /\ \A o1, o2 \in orders : o1.basket = o2.basket => o1 = o2
    /\ \A w1, w2 \in Workers :
        (w1 # w2 /\ basket[w1] # NoBasket /\ basket[w1].id = basket[w2].id)
            => /\ ~(order[w1] # NoOrder /\ order[w2] # NoOrder)
               /\ (order[w1] # NoOrder /\ Responded(w2)) => FailureResponse(resp[w2])

\* Two requests loaded the same basket while it was open; one created the
\* order and the other one was refused by create_order.
C3_Witness ==
    \E w1, w2 \in Workers :
        /\ w1 # w2 /\ basket[w1].id = basket[w2].id
        /\ basket[w1].status = "Open" /\ basket[w2].status = "Open"
        /\ order[w1] # NoOrder
        /\ Responded(w2) /\ ResultOf(w2, 3) = "AlreadyPlaced"

\* C4: a request whose handle_payment raised RedundantPaymentNotificationError
\* is answered 409 with an error, never enters create_order and creates no
\* order.
C4_RedundantIsConflict ==
    \A w \in Workers :
        (ResultOf(w, 2) = "Redundant" /\ pc[w] # "atomic")
            => /\ Responded(w)
               /\ resp[w] = ErrorResponse(409)
               /\ Len(trace[w]) = 2
               /\ OrdersBy(id[w]) = {}

\* A replay of the transaction id of an ordered basket was answered.
C4_Witness ==
    \E w \in Workers :
        /\ Responded(w) /\ ResultOf(w, 2) = "Redundant"
        /\ \E x \in sources : x.transactionId = req[w].transactionId
                                /\ OrdersBy(x.by) # {}

\* C5: a request whose handle_payment raised PaymentError is answered 400 with
\* an error, creates no order, and leaves the basket as it was: if the basket
\* is not as this request loaded it, the order of another request froze it.
C5_PaymentErrorRecoverable ==
    \A w \in Workers :
        (ResultOf(w, 2) = "PaymentError" /\ pc[w] # "atomic")
            => /\ Responded(w)
               /\ resp[w] = ErrorResponse(400)
               /\ Len(trace[w]) = 2
               /\ OrdersBy(id[w]) = {}
               /\ basketStatus[basket[w].id] # basket[w].status
                    => \E o \in OrdersFor(basket[w].id) : o.by # id[w]

\* A payment for a basket was declined and answered, and a later request for
\* the same basket created its order: the declined payment was committed
\* before the payment of the request that created the order.
C5_Witness ==
    \E i, j \in DOMAIN audit :
        /\ i < j
        /\ audit[i].response = "PaymentError"
        /\ audit[j].response = "ok"
        /\ audit[i].basket = audit[j].basket
        /\ audit[i].by < audit[j].by
        /\ OrdersBy(audit[j].by) # {}
        /\ \A w \in Workers : id[w] # audit[i].by

\* C6: a request whose handle_payment raised another exception is answered 400
\* with an error, never enters create_order, and nothing handle_payment wrote
\* is in the database: no processor response, no payment source, no order.
C6_OtherErrorRolledBack ==
    \A w \in Workers :
        (ResultOf(w, 2) = "Error" /\ pc[w] # "atomic")
            => /\ Responded(w)
               /\ resp[w] = ErrorResponse(400)
               /\ Len(trace[w]) = 2
               /\ tx[w] = EmptyTx
               /\ AuditBy(id[w]) = {}
               /\ SourcesBy(id[w]) = {}
               /\ OrdersBy(id[w]) = {}

\* A handle_payment that raised an unclassified exception was answered while
\* the payments of other requests are in the database.
C6_Witness ==
    \E w \in Workers :
        /\ Responded(w) /\ ResultOf(w, 2) = "Error"
        /\ audit # <<>>

\* C7: every handle_payment call whose atomic block was left has exactly one
\* processor response in the database.
C7_OneAuditRecordPerCall ==
    \A w \in Workers :
        (Len(trace[w]) >= 2 /\ pc[w] # "atomic")
            => Cardinality(AuditBy(id[w])) = 1

\* C8: when handle_post_order raises, the order stays in the database, its
\* basket stays frozen, and the response has status 200.
C8_PostOrderFailureIsolated ==
    \A w \in Workers :
        ResultOf(w, 4) = "Error"
            => /\ Responded(w)
               /\ resp[w].status = 200
               /\ order[w] \in OrdersBy(id[w])
               /\ basketStatus[order[w].basket] = "Submitted"

\* handle_post_order raised after create_order had placed the order.
C8_Witness ==
    \E w \in Workers :
        /\ ResultOf(w, 3) = "ok" /\ ResultOf(w, 4) = "Error"
        /\ order[w] \notin fulfilled

\* C9: a request that created an order is answered with that order's data,
\* and a response with an error body belongs to a request that created no
\* order.
C9_OrderDataIffOrderCreated ==
    \A w \in Workers :
        Responded(w)
            => /\ OrdersBy(id[w]) # {}
                    => resp[w].body = "order_data" /\ resp[w].order \in OrdersBy(id[w])
               /\ resp[w].body = "error" => OrdersBy(id[w]) = {}

\* C10: a request without a basket id, or whose basket could not be obtained,
\* is answered 400 with an error; no later stage is entered and the request
\* leaves nothing in the database.
C10_NoBasketNoSideEffects ==
    \A w \in Workers :
        (pc[w] \notin {"idle", "get_basket"}
            /\ (BasketIdMissing(req[w]) \/ ResultOf(w, 1) # "ok"))
            => /\ Responded(w)
               /\ resp[w] = ErrorResponse(400)
               /\ Len(trace[w]) <= 1
               /\ basket[w] = NoBasket
               /\ tx[w] = EmptyTx
               /\ AuditBy(id[w]) = {} /\ SourcesBy(id[w]) = {} /\ OrdersBy(id[w]) = {}

\* Requests were rejected for a missing basket id and for a basket that could
\* not be obtained.
C10_Witness ==
    \E w1, w2 \in Workers :
        /\ Responded(w1) /\ BasketIdMissing(req[w1]) /\ trace[w1] = <<>>
        /\ Responded(w2) /\ ResultOf(w2, 1) \in {"ObjectDoesNotExist", "Error"}


\* C11: a request for a basket of another user fails the lookup as not found
\* and is answered 400; the basket object a worker holds always belongs to
\* the requester, so neither handle_payment nor create_order runs on a basket
\* of another user.
C11_OwnBasketOnly ==
    \A w \in Workers :
        /\ basket[w] # NoBasket => BasketOwner(basket[w].id) = req[w].user
        /\ (pc[w] \notin {"idle", "get_basket"}
                /\ req[w].basket_id \in BasketIds
                /\ BasketOwner(req[w].basket_id) # req[w].user)
            => /\ trace[w] = <<Stage("get_basket", "ObjectDoesNotExist")>>
               /\ resp[w] = ErrorResponse(400)
               /\ OrdersBy(id[w]) = {} /\ AuditBy(id[w]) = {} /\ SourcesBy(id[w]) = {}

\* A request for the basket of another user was answered while that basket
\* was being paid for by its owner.
C11_Witness ==
    \E w1, w2 \in Workers :
        /\ Responded(w1) /\ req[w1].basket_id \in BasketIds
        /\ BasketOwner(req[w1].basket_id) # req[w1].user
        /\ basket[w2].id = req[w1].basket_id /\ pc[w2] = "atomic"

\* C12: handle_payment only runs on a basket object that was loaded for the
\* request being served and had the offers applied to it.
C12_OffersAppliedBeforePayment ==
    \A w \in Workers :
        (pc[w] = "pay" \/ Len(trace[w]) >= 2)
            => /\ basket[w].offers_applied
               /\ basket[w].id = req[w].basket_id
               /\ ResultOf(w, 1) = "ok"

\* The second request for a basket loaded it again (it sees the basket
\* frozen by the first one) and reached handle_payment with the offers
\* applied.
C12_Witness ==
    \E w \in Workers :
        /\ id[w] = 2 /\ Len(trace[w]) >= 2
        /\ basket[w].status = "Submitted" /\ basket[w].offers_applied

\* What happened to the request, read from the stages it entered.
TraceOutcome(w) ==
    CASE ResultOf(w, 3) = "ok" -> "success"
      [] ResultOf(w, 2) = "Redundant" -> "redundant"
      [] ResultOf(w, 2) = "PaymentError" -> "recoverable"
      [] OTHER -> "fatal"

\* The outcomes a response stands for.
ResponseOutcomes(r) ==
    CASE r.status = 200 -> {"success"}
      [] r.status = 409 /\ r.body = "error" -> {"redundant"}
      [] r.status = 400 /\ r.body = "error" -> {"recoverable", "fatal"}
      [] OTHER -> {}

\* C13: every request that was received is answered, and the answer stands
\* for the one outcome the request had: success, recoverable payment
\* failure, redundant payment, or fatal error.  A worker that serves a
\* request always comes to be idle or to have responded, and it becomes idle
\* only after it has responded: so every received request leads to a
\* response.
C13_EveryAttemptTerminates ==
    /\ [](\A w \in Workers : Responded(w) => TraceOutcome(w) \in ResponseOutcomes(resp[w]))
    /\ [][\A w \in Workers : (pc[w] # "idle" /\ pc'[w] = "idle") => Responded(w)]_vars
    /\ \A w \in Workers : []<>(pc[w] = "idle" \/ Responded(w))

\* A request whose payment was handled ended fatally at create_order.
C13_Witness ==
    \E w \in Workers :
        /\ Responded(w) /\ ResultOf(w, 2) = "ok" /\ ResultOf(w, 3) = "Error"
        /\ TraceOutcome(w) = "fatal"


\* ------------------------------------------------------------------------
\* ProgramCourseRunSeatsCondition.is_satisfied (programs/conditions.py)
\* ------------------------------------------------------------------------

\* Number of courses of a program, and of enrollments of a buyer.
MaxCourses == 2

MaxEnrollments == 2

\* Strings are sequences of pieces, so that Python's substring test can be
\* computed on them.  key in course_id:
Contains(sub, str) ==
    \E i \in 1..(Len(str) - Len(sub) + 1) : SubSeq(str, i, i + Len(sub) - 1) = sub

\* The courses of the catalogue.  Course CS10 has two course runs; CS2
\* sells one of CS10's seats too.
CourseNames == {"CS1", "CS10", "CS2"}

\* course['key']
CourseKey(c) ==
    CASE c = "CS1" -> <<"edX+CS", "1">>
      [] c = "CS10" -> <<"edX+CS", "1", "0">>
      [] c = "CS2" -> <<"edX+CS", "2">>

Seat(sku, type) == [sku |-> sku, type |-> type]

\* course['course_runs'], each with its seats
CourseRuns(c) ==
    CASE c = "CS1" -> <<[seats |-> {Seat("s1", "verified"), Seat("s1a", "audit")}]>>
      [] c = "CS10" -> <<[seats |-> {Seat("s2", "verified")}],
                         [seats |-> {Seat("s3", "verified")}]>>
      [] c = "CS2" -> <<[seats |-> {Seat("s3", "verified")}]>>

\* A course as the discovery service describes it.
Course(c) == [key |-> CourseKey(c), course_runs |-> CourseRuns(c)]

\* The id of the course run of a course a buyer enrolls in:
\* course-v1:<course key>+<run>.
CourseRunId(key) == <<"course-v1:">> \o key \o <<"+", "2T2017">>

SeatTypes == {"verified", "audit"}

\* partner_sku of the stock records; sx is a seat of no course above.
Skus == {"s1", "s1a", "s2", "s3", "sx"}

\* The baskets is_satisfied is called with, as the SKUs of their lines.
Baskets == SUBSET Skus

\* Sequences of distinct courses, at most n of them.
CourseLists(n) ==
    {q \in UNION {[1..k -> CourseNames] : k \in 1..n} :
        \A i, j \in DOMAIN q : i # j => q[i] # q[j]}

\* The programs client.get_program can return.
Programs ==
    {[applicable_seat_types |-> t, courses |-> [i \in DOMAIN q |-> Course(q[i])]] :
        t \in {{"verified"}, {"verified", "audit"}}, q \in CourseLists(MaxCourses)}

\* An enrollment as the enrollment service describes it.
Enrollment(key, mode) == [course_details |-> [course_id |-> CourseRunId(key)], mode |-> mode]

\* The enrollment lists enrollment.get can return.
EnrollmentLists ==
    {e \in SUBSET {Enrollment(CourseKey(c), m) : c \in CourseNames, m \in SeatTypes} :
        Cardinality(e) <= MaxEnrollments}

\* The exceptions the two service calls can raise: an HTTP 404, another HTTP
\* error response, a timeout, a connection failure.
ProgramFetchErrors == {"HttpNotFoundError", "SlumberBaseException", "Timeout", "ConnectionError"}

EnrollmentFetchErrors == {"SlumberBaseException", "Timeout", "ConnectionError"}

Returned(v) == [value |-> v, raised |-> "none"]

Raised(e) == [value |-> "none", raised |-> e]

Call(name, outcome) == [call |-> name, outcome |-> outcome]

\* BasketIsEmpty with the check of line 68 missing.
BasketIsEmpty_Never(lines) == FALSE

\* line 68: basket.is_empty
BasketIsEmpty(lines) == lines = {}

\* ProgramFetchCaught without requests.Timeout.
ProgramFetchCaught_NoTimeout == {"HttpNotFoundError", "SlumberBaseException"}

\* line 74: the exceptions of get_program that is_satisfied catches.
ProgramFetchCaught == {"HttpNotFoundError", "SlumberBaseException", "Timeout"}

\* CourseEnrolled without the test of the enrollment's mode.
CourseEnrolled_IgnoreMode(course, enrolled, applicable_seat_types) ==
    \E enrollment \in enrolled :
        Contains(course.key, enrollment.course_details.course_id)

\* lines 82-83: the buyer counts as enrolled in the course when the course
\* key occurs in the course id of an enrollment whose mode is applicable.
CourseEnrolled(course, enrolled, applicable_seat_types) ==
    \E enrollment \in enrolled :
        /\ Contains(course.key, enrollment.course_details.course_id)
        /\ enrollment.mode \in applicable_seat_types

\* lines 92-94: the SKUs of the applicable seats of all runs of the course.
CourseSkus(course, applicable_seat_types) ==
    UNION {{seat.sku : seat \in {x \in course.course_runs[r].seats :
                                    x.type \in applicable_seat_types}} :
            r \in DOMAIN course.course_runs}

\* CoursePass that wants every applicable SKU of the course in the basket.
CoursePass_RequireAll(course, enrolled, applicable_seat_types, skus_left) ==
    IF CourseEnrolled(course, enrolled, applicable_seat_types)
    THEN [continue |-> TRUE, basket_skus |-> skus_left]
    ELSE IF CourseSkus(course, applicable_seat_types) \subseteq skus_left
            /\ skus_left # {}
    THEN [continue |-> TRUE,
          basket_skus |-> skus_left \ CourseSkus(course, applicable_seat_types)]
    ELSE [continue |-> FALSE, basket_skus |-> skus_left]

\* CoursePass that leaves no SKU for the courses after a course the buyer
\* is enrolled in.
CoursePass_EnrolledEmptiesSkus(course, enrolled, applicable_seat_types, skus_left) ==
    IF CourseEnrolled(course, enrolled, applicable_seat_types)
    THEN [continue |-> TRUE, basket_skus |-> {}]
    ELSE IF skus_left = {}
    THEN [continue |-> FALSE, basket_skus |-> skus_left]
    ELSE LET diff == skus_left \ CourseSkus(course, applicable_seat_types) IN
         IF diff = skus_left
         THEN [continue |-> FALSE, basket_skus |-> skus_left]
         ELSE [continue |-> TRUE, basket_skus |-> diff]

\* lines 80-107: one pass of the loop over the courses: go on to the next
\* course with the SKUs left, or return False.
CoursePass(course, enrolled, applicable_seat_types, skus_left) ==
    IF CourseEnrolled(course, enrolled, applicable_seat_types)
    THEN [continue |-> TRUE, basket_skus |-> skus_left]
    ELSE IF skus_left = {}
    THEN [continue |-> FALSE, basket_skus |-> skus_left]
    ELSE LET diff == skus_left \ CourseSkus(course, applicable_seat_types) IN
         IF diff = skus_left
         THEN [continue |-> FALSE, basket_skus |-> skus_left]
         ELSE [continue |-> TRUE, basket_skus |-> diff]

\* The loop over the courses from course i on, with the SKUs that are left:
\* TRUE when every course is passed.
RECURSIVE courses_satisfied(_, _, _, _, _)
courses_satisfied(courses, i, enrolled, applicable_seat_types, skus_left) ==
    IF i > Len(courses)
    THEN TRUE
    ELSE LET pass == CoursePass(courses[i], enrolled, applicable_seat_types, skus_left) IN
         IF pass.continue
         THEN courses_satisfied(courses, i + 1, enrolled, applicable_seat_types,
                                pass.basket_skus)
         ELSE FALSE

\* lines 68-109: the value is_satisfied returns for a basket when the program
\* service answers prog and the enrollment service answers enrolled.
is_satisfied(lines, prog, enrolled) ==
    IF BasketIsEmpty(lines)
    THEN FALSE
    ELSE courses_satisfied(prog.courses, 1, enrolled, prog.applicable_seat_types, lines)

\* The enrollment service is called whatever the program service answered.
AfterProgramFetch_Always(outcome) == "get_enrollments"

\* lines 72-78: where is_satisfied goes on after get_program: to the
\* enrollment call, or to its end when get_program raised.
AfterProgramFetch(outcome) == IF outcome = "ok" THEN "get_enrollments" ELSE "done"

\* basket_skus is the set of the basket itself: what is taken from the one
\* is taken from the other.
BasketAfter_SharedSet(lines, skus_left) == skus_left

\* lines 71 and 107: basket_skus is a set of its own, built from the lines
\* and bound anew after each course; the basket keeps its lines.
BasketAfter(lines, skus_left) == lines

\* lines 56-71: is_satisfied is called; an empty basket is answered at once.
IsSatisfied ==
    /\ evalPc = "idle"
    /\ \E lines \in Baskets :
        /\ evalBasket' = lines
        /\ IF BasketIsEmpty(lines)
           THEN /\ retval' = Returned(FALSE)
                /\ evalPc' = "done"
                /\ basket_skus' = {}
           ELSE /\ retval' = NoResult
                /\ evalPc' = "get_program"
                /\ basket_skus' = lines
    /\ program' = NoProgram
    /\ enrollments' = {}
    /\ courseIdx' = 0
    /\ calls' = <<>>
    /\ UNCHANGED <<dbVars, viewVars, restVars>>

\* lines 72-77: the program is fetched.
GetProgram ==
    /\ evalPc = "get_program"
    /\ \/ \E p \in Programs :
            /\ program' = p
            /\ calls' = Append(calls, Call("get_program", "ok"))
            /\ evalPc' = AfterProgramFetch("ok")
            /\ retval' = retval
       \/ \E e \in ProgramFetchErrors :
            /\ program' = program
            /\ calls' = Append(calls, Call("get_program", e))
            /\ evalPc' = AfterProgramFetch(e)
            /\ retval' = IF e \in ProgramFetchCaught THEN Returned(FALSE) ELSE Raised(e)
    /\ UNCHANGED <<evalBasket, enrollments, basket_skus, courseIdx>>
    /\ UNCHANGED <<dbVars, viewVars, restVars>>

\* line 78: the enrollments of the buyer are fetched; nothing catches an
\* exception of this call.
GetEnrollments ==
    /\ evalPc = "get_enrollments"
    /\ \/ \E en \in EnrollmentLists :
            /\ enrollments' = en
            /\ calls' = Append(calls, Call("get_enrollments", "ok"))
            /\ evalPc' = "courses"
            /\ courseIdx' = 1
            /\ retval' = retval
       \/ \E e \in EnrollmentFetchErrors :
            /\ enrollments' = enrollments
            /\ calls' = Append(calls, Call("get_enrollments", e))
            /\ evalPc' = "done"
            /\ courseIdx' = courseIdx
            /\ retval' = Raised(e)
    /\ UNCHANGED <<evalBasket, program, basket_skus>>
    /\ UNCHANGED <<dbVars, viewVars, restVars>>

\* lines 80-107: one course of the program is looked at.
CourseLoop ==
    /\ evalPc = "courses"
    /\ courseIdx <= Len(program.courses)
    /\ LET pass == CoursePass(program.courses[courseIdx], enrollments,
                              program.applicable_seat_types, basket_skus) IN
        /\ basket_skus' = pass.basket_skus
        /\ evalBasket' = BasketAfter(evalBasket, pass.basket_skus)
        /\ IF pass.continue
           THEN /\ courseIdx' = courseIdx + 1
                /\ UNCHANGED <<evalPc, retval>>
           ELSE /\ retval' = Returned(FALSE)
                /\ evalPc' = "done"
                /\ courseIdx' = courseIdx
    /\ UNCHANGED <<program, enrollments, calls>>
    /\ UNCHANGED <<dbVars, viewVars, restVars>>

\* line 109: every course was passed.
ReturnTrue ==
    /\ evalPc = "courses"
    /\ courseIdx > Len(program.courses)
    /\ retval' = Returned(TRUE)
    /\ evalPc' = "done"
    /\ UNCHANGED <<evalBasket, program, enrollments, basket_skus, courseIdx, calls>>
    /\ UNCHANGED <<dbVars, viewVars, restVars>>

\* The caller has the answer; the next evaluation starts from nothing.
EvalReturn ==
    /\ evalPc = "done"
    /\ evalPc' = "idle"
    /\ evalBasket' = {}
    /\ program' = NoProgram
    /\ enrollments' = {}
    /\ basket_skus' = {}
    /\ courseIdx' = 0
    /\ retval' = NoResult
    /\ calls' = <<>>
    /\ UNCHANGED <<dbVars, viewVars, restVars>>

CondNext ==
    \/ IsSatisfied
    \/ GetProgram
    \/ GetEnrollments
    \/ CourseLoop
    \/ ReturnTrue
    \/ EvalReturn

CondSpec == Init /\ [][CondNext]_vars


\* ------------------------------------------------- claims on is_satisfied

\* is_satisfied has returned or raised.
EvalDone == evalPc = "done"

\* is_satisfied has returned the value v (and raised nothing).
Returns(v) == EvalDone /\ retval.raised = "none" /\ retval.value = v

\* Both services answered, so the loop over the courses ran.
LoopRan ==
    /\ Len(calls) = 2
    /\ calls[1] = Call("get_program", "ok")
    /\ calls[2] = Call("get_enrollments", "ok")

\* The buyer is enrolled in a run of the course in an applicable mode.
EnrolledIn(course) ==
    \E e \in enrollments :
        /\ e.course_details.course_id = CourseRunId(course.key)
        /\ e.mode \in program.applicable_seat_types

\* The courses of the program the buyer is not enrolled in.
CoursesToBuy == {i \in DOMAIN program.courses : ~EnrolledIn(program.courses[i])}

\* The assignments of a basket SKU of its own to each course to buy, the SKU
\* being one of the applicable seats of the course.
Matchings ==
    {f \in [CoursesToBuy -> evalBasket] :
        /\ \A i, j \in CoursesToBuy : i # j => f[i] # f[j]
        /\ \A i \in CoursesToBuy :
            f[i] \in CourseSkus(program.courses[i], program.applicable_seat_types)}

\* No two courses of the program have an applicable SKU in common.
SkusDisjoint ==
    \A i, j \in DOMAIN program.courses :
        i # j => CourseSkus(program.courses[i], program.applicable_seat_types)
                    \cap CourseSkus(program.courses[j], program.applicable_seat_types) = {}

\* C14: when is_satisfied returns True, every course of the program the buyer
\* is not enrolled in (in an applicable mode) can be given a basket SKU of its
\* own among the applicable SKUs of the course.
C14_TrueImpliesMatching ==
    (Returns(TRUE)) => Matchings # {}

\* C15 as stated: for a non-empty basket, is_satisfied returns True whenever
\* such an assignment exists, whatever SKUs the courses share.
C15_MatchingImpliesTrue ==
    (EvalDone /\ LoopRan /\ evalBasket # {} /\ Matchings # {})
        => Returns(TRUE)

\* C15, amended: for a non-empty basket and a program no two courses of which
\* share an applicable SKU, is_satisfied returns True whenever every course
\* the buyer is not enrolled in can be given a basket SKU of its own.
C15_MatchingImpliesTrueDisjoint ==
    (EvalDone /\ LoopRan /\ evalBasket # {} /\ SkusDisjoint /\ Matchings # {})
        => Returns(TRUE)

\* Two courses to buy, each with its own SKU in a basket that holds other
\* SKUs too, and the condition was satisfied.
C15_Witness ==
    /\ EvalDone /\ LoopRan /\ SkusDisjoint
    /\ Cardinality(CoursesToBuy) = 2
    /\ Matchings # {}
    /\ "sx" \in evalBasket
    /\ Returns(TRUE)

\* C16: a pass of the loop over a course the buyer is enrolled in, in an
\* applicable mode, leaves the SKUs that are left as they are and goes on to
\* the next course; so a buyer enrolled in the first of two courses whose
\* basket holds one applicable SKU of the second satisfies the condition; and
\* when no enrollment is in an applicable mode every course needs a SKU of
\* its own seats in the basket.
C16_EnrollmentSubstitutes ==
    /\ [][(evalPc = "courses" /\ courseIdx <= Len(program.courses)
                /\ EnrolledIn(program.courses[courseIdx]))
            => (basket_skus' = basket_skus /\ courseIdx' = courseIdx + 1
                    /\ evalPc' = evalPc /\ retval' = retval)]_vars
    /\ [](( /\ EvalDone /\ LoopRan
            /\ Len(program.courses) = 2
            /\ EnrolledIn(program.courses[1])
            /\ Cardinality(evalBasket) = 1
            /\ evalBasket \subseteq CourseSkus(program.courses[2],
                                               program.applicable_seat_types))
            => Returns(TRUE))
    /\ [](( /\ Returns(TRUE)
            /\ \A e \in enrollments : e.mode \notin program.applicable_seat_types)
            => \A i \in DOMAIN program.courses :
                CourseSkus(program.courses[i], program.applicable_seat_types)
                    \cap evalBasket # {})

\* The buyer is enrolled in the first course only, the basket holds just a
\* SKU of the second one, which the loop consumed, and the condition was
\* satisfied.
C16_Witness ==
    /\ EvalDone /\ LoopRan /\ Returns(TRUE)
    /\ Len(program.courses) = 2
    /\ EnrolledIn(program.courses[1])
    /\ ~CourseEnrolled(program.courses[2], enrollments, program.applicable_seat_types)
    /\ Cardinality(evalBasket) = 1
    /\ basket_skus = {}

\* C17: when get_program times out or reports not-found, is_satisfied returns
\* False, raises nothing and calls nothing else.
C17_ProgramTimeoutOrNotFound ==
    (EvalDone /\ Len(calls) >= 1 /\ calls[1].outcome \in {"Timeout", "HttpNotFoundError"})
        => /\ Returns(FALSE)
           /\ Len(calls) = 1

\* get_program timed out for a non-empty basket.
C17_Witness ==
    /\ EvalDone /\ evalBasket # {}
    /\ calls = <<Call("get_program", "Timeout")>>

\* C18: when get_program fails with a connection error, is_satisfied returns
\* False and raises nothing.
C18_ProgramConnectionError ==
    (EvalDone /\ Len(calls) >= 1 /\ calls[1].outcome = "ConnectionError")
        => Returns(FALSE)

\* C19: when the enrollment call fails, is_satisfied returns False and raises
\* nothing.
C19_EnrollmentFailure ==
    (EvalDone /\ Len(calls) = 2 /\ calls[2].outcome \in EnrollmentFetchErrors)
        => Returns(FALSE)

\* C20: for an empty basket is_satisfied returns False without calling the
\* program service or the enrollment service.
C20_EmptyBasket ==
    (evalPc # "idle" /\ evalBasket = {})
        => /\ EvalDone
           /\ Returns(FALSE)
           /\ calls = <<>>

\* is_satisfied answered for an empty basket.
C20_Witness ==
    /\ EvalDone /\ evalBasket = {} /\ Returns(FALSE)
    /\ program = NoProgram /\ enrollments = {}


C36_OneEnrollmentCallAfterProgram ==
    /\ Len(calls) <= 2
    /\ Len(calls) >= 1 => calls[1].call = "get_program"
    /\ Len(calls) = 2 => calls[1].outcome = "ok" /\ calls[2].call = "get_enrollments"
    /\ evalPc = "get_enrollments" => calls = <<Call("get_program", "ok")>>
    /\ evalPc = "courses" => LoopRan
    /\ (EvalDone /\ evalBasket # {})
        => /\ Len(calls) >= 1
           /\ calls[1].outcome = "ok" => Len(calls) = 2
    /\ evalPc \in {"idle", "get_program", "get_enrollments"} => enrollments = {}

\* The second course of a program is being looked at, after the one call of
\* each service.
C36_Witness ==
    /\ evalPc = "courses" /\ courseIdx = 2
    /\ calls = <<Call("get_program", "ok"), Call("get_enrollments", "ok")>>
    /\ enrollments # {}

\* The enrollment lists that extend the one of the evaluation.
Extensions ==
    {e \in SUBSET {Enrollment(CourseKey(c), m) : c \in CourseNames, m \in SeatTypes} :
        enrollments \subseteq e}

\* C37: the value is_satisfied returned is the one computed from the basket,
\* the program and the enrollments; and when it is True, it is True as well
\* for every basket with more SKUs and every enrollment list with more
\* enrollments, the program being the same.
C37_Monotone ==
    /\ (EvalDone /\ LoopRan)
        => retval.value = is_satisfied(evalBasket, program, enrollments)
    /\ (Returns(TRUE))
        => \A lines \in Baskets : \A enrolled \in Extensions :
            evalBasket \subseteq lines => is_satisfied(lines, program, enrolled)

\* The condition was satisfied with no enrollment by a basket that is not
\* the largest one, for a program of two courses.
C37_Witness ==
    /\ Returns(TRUE)
    /\ enrollments = {}
    /\ Len(program.courses) = 2
    /\ Cardinality(evalBasket) = 2

\* The orders the courses of the program can be listed in.
CourseOrders ==
    {q \in [DOMAIN program.courses -> {program.courses[i] : i \in DOMAIN program.courses}] :
        \A i, j \in DOMAIN q : i # j => q[i] # q[j]}

\* The value is_satisfied returned is the one it returns for every order of
\* the courses of the program.
SameInEveryOrder ==
    \A q \in CourseOrders :
        is_satisfied(evalBasket, [program EXCEPT !.courses = q], enrollments) = retval.value

\* C38 as stated: whatever the courses of the program, the value
\* is_satisfied returns is the same for every order of the courses.
C38_OrderIndependent ==
    (EvalDone /\ LoopRan) => SameInEveryOrder

\* C38, amended: when no two courses of the program share an applicable SKU,
\* the value is_satisfied returns is the same for every order of the courses.
C38_OrderIndependentDisjoint ==
    (EvalDone /\ LoopRan /\ SkusDisjoint) => SameInEveryOrder

\* The condition was not satisfied for a program of two courses without a
\* common SKU, the buyer being enrolled in the second one and the basket
\* holding SKUs, but none of the first one.
C38_Witness ==
    /\ Returns(FALSE) /\ LoopRan /\ SkusDisjoint
    /\ Len(program.courses) = 2
    /\ evalBasket # {}
    /\ courseIdx = 1
    /\ CourseEnrolled(program.courses[2], enrollments, program.applicable_seat_types)


\* ------------------------------ applicability and consumption of the lines
\* ProgramCourseRunSeatsCondition.get_applicable_skus, can_apply_condition,
\* get_applicable_lines and consume_items (conditions.py, lines 43-54 and
\* 111-147).

\* Number of lines of a basket.
MaxLines == 3

\* Number of times the offer is applied to a basket (consume_items calls).
MaxApplications == 2

\* line.stockrecord_id of a line without a stock record.
NoStockrecord == "none"

\* A basket line: the partner_sku of its stock record, whether its product is
\* discountable, its unit price, its quantity and the quantity other
\* applications have consumed (_affected_quantity).
Line(sku, discountable, price, quantity) ==
    [stockrecord |-> sku, discountable |-> discountable, price |-> price,
     quantity |-> quantity, consumed |-> 0]

\* The lines a basket is made of: verified seats of the courses, the free
\* audit seat of CS1, a seat of no course, a line without a stock record and
\* a verified seat that is not discountable.
LineTypes ==
    {Line("s1", TRUE, 10, 1),
     Line("s2", TRUE, 25, 2),
     Line("s3", TRUE, 15, 1),
     Line("s1a", TRUE, 0, 1),
     Line("sx", TRUE, 25, 1),
     Line(NoStockrecord, TRUE, 15, 1),
     Line("s2", FALSE, 10, 1)}

\* basket.all_lines(): at most n distinct lines, in basket order.
LineLists(n) ==
    {q \in UNION {[1..k -> LineTypes] : k \in 1..n} :
        \A i, j \in DOMAIN q : i # j => q[i] # q[j]}

\* What get_program answers when a line is examined: a program of the two
\* courses CS1 and CS10, or an exception.
Fetches ==
    {[program |-> [applicable_seat_types |-> t,
                   courses |-> <<Course("CS1"), Course("CS10")>>],
      error |-> "none"] : t \in {{"verified"}, {"verified", "audit"}}}
    \cup {[program |-> NoProgram, error |-> e] : e \in ProgramFetchErrors}

\* get_applicable_skus that takes the seats of every type.
get_applicable_skus_AnySeatType(p) ==
    UNION {UNION {{seat.sku : seat \in p.courses[c].course_runs[r].seats} :
                    r \in DOMAIN p.courses[c].course_runs} :
            c \in DOMAIN p.courses}

\* lines 43-54: the SKUs of the seats of an applicable type, over all course
\* runs of all courses of the program.
get_applicable_skus(p) ==
    UNION {UNION {{seat.sku : seat \in {x \in p.courses[c].course_runs[r].seats :
                                           x.type \in p.applicable_seat_types}} :
                    r \in DOMAIN p.courses[c].course_runs} :
            c \in DOMAIN p.courses}

\* lines 111-118: False for a line without a stock record, before the program
\* is fetched; otherwise the exception of get_program, or whether the SKU is
\* applicable and the product discountable.
can_apply_condition(line, fetch) ==
    IF line.stockrecord = NoStockrecord
    THEN Returned(FALSE)
    ELSE IF fetch.error # "none"
    THEN Raised(fetch.error)
    ELSE Returned(line.stockrecord \in get_applicable_skus(fetch.program)
                    /\ line.discountable)

\* line 127: oscar_utils.unit_price(offer, line)
unit_price(line) == line.price

\* Position of a tuple in a list sorted by price: behind the tuples that
\* sort before it or equal to it (sorted() is stable, also with reverse).
InsertPosition(t, s, reverse) ==
    LET before(k) == IF reverse THEN s[k].price >= t.price
                                ELSE s[k].price <= t.price
        later == {k \in DOMAIN s : ~before(k)}
    IN IF later = {} THEN Len(s) + 1
       ELSE CHOOSE k \in later : \A j \in later : k <= j

InsertTuple(t, s, reverse) ==
    LET k == InsertPosition(t, s, reverse) IN
    SubSeq(s, 1, k - 1) \o <<t>> \o SubSeq(s, k, Len(s))

RECURSIVE SortedPrefix(_, _, _)
SortedPrefix(s, n, reverse) ==
    IF n = 0 THEN <<>>
    ELSE InsertTuple(s[n], SortedPrefix(s, n - 1, reverse), reverse)

\* sorted() that ignores the reverse argument.
sorted_Ascending(s, reverse) == SortedPrefix(s, Len(s), FALSE)

\* line 132: sorted(line_tuples, reverse=..., key=operator.itemgetter(0))
sorted(s, reverse) == SortedPrefix(s, Len(s), reverse)

\* lines 122-130: the (price, line) tuples of the lines the condition can be
\* applied to and that have a price, in basket order; a line is named by
\* its position in the basket.
RECURSIVE CollectTuples(_, _, _)
CollectTuples(lines, fetch, n) ==
    IF n = 0 THEN <<>>
    ELSE LET rest == CollectTuples(lines, fetch, n - 1)
             line == lines[n]
         IN IF ~can_apply_condition(line, fetch).value
            THEN rest
            ELSE IF unit_price(line) = 0
            THEN rest
            ELSE Append(rest, [price |-> unit_price(line), line |-> n])

\* The exception get_applicable_lines ends with, "none" if it returns: the
\* exception of the first can_apply_condition call that raises.
ApplicableLinesRaised(lines, fetch) ==
    IF \E i \in DOMAIN lines : can_apply_condition(lines[i], fetch).raised # "none"
    THEN fetch.error
    ELSE "none"

\* lines 120-132
get_applicable_lines(lines, fetch, reverse) ==
    sorted(CollectTuples(lines, fetch, Len(lines)), reverse)

Min(a, b) == IF a <= b THEN a ELSE b

\* line.quantity_without_discount
quantity_without_discount(line) == line.quantity - line.consumed

\* line.consume(quantity): never more than what is left of the line.
Consume(line, quantity) ==
    [line EXCEPT !.consumed = @ + Min(quantity, line.quantity - line.consumed)]

\* quantity_to_consume that takes everything left of the line.
quantity_to_consume_All(line) == quantity_without_discount(line)

\* line 146
quantity_to_consume(line) == Min(quantity_without_discount(line), 1)

\* lines 145-147: the lines of the basket after consume_items.
consume_items(lines, affected) ==
    [i \in DOMAIN lines |->
        IF i \in affected THEN Consume(lines[i], quantity_to_consume(lines[i]))
        ELSE lines[i]]

\* lines 120-132: the benefit asks for the lines the condition applies to.
GetApplicableLines ==
    /\ applyPc = "idle"
    /\ \E lines \in LineLists(MaxLines), fetch \in Fetches, reverse \in BOOLEAN :
        /\ applyLines' = lines
        /\ applyFetch' = fetch
        /\ most_expensive_first' = reverse
        /\ IF ApplicableLinesRaised(lines, fetch) # "none"
           THEN /\ applyPc' = "raised"
                /\ line_tuples' = <<>>
           ELSE /\ applyPc' = "applicable"
                /\ line_tuples' = get_applicable_lines(lines, fetch, reverse)
    /\ affected_lines' = {}
    /\ applications' = 0
    /\ UNCHANGED <<dbVars, viewVars, condVars, signalVars, sdnVars, addVars, previewVars>>

\* lines 134-147: the benefit was applied to some of the applicable lines and
\* has them consumed.
ConsumeItems ==
    /\ applyPc = "applicable"
    /\ applications < MaxApplications
    /\ \E affected \in (SUBSET {line_tuples[k].line : k \in DOMAIN line_tuples}) \ {{}} :
        /\ affected_lines' = affected
        /\ applyLines' = consume_items(applyLines, affected)
    /\ applications' = applications + 1
    /\ UNCHANGED <<applyPc, applyFetch, most_expensive_first, line_tuples>>
    /\ UNCHANGED <<dbVars, viewVars, condVars, signalVars, sdnVars, addVars, previewVars>>

\* The application of the offer to the basket is over.
ApplyReturn ==
    /\ applyPc \in {"applicable", "raised"}
    /\ applyPc' = "idle"
    /\ applyLines' = <<>>
    /\ applyFetch' = NoFetch
    /\ most_expensive_first' = TRUE
    /\ line_tuples' = <<>>
    /\ affected_lines' = {}
    /\ applications' = 0
    /\ UNCHANGED <<dbVars, viewVars, condVars, signalVars, sdnVars, addVars, previewVars>>

ApplyNext ==
    \/ GetApplicableLines
    \/ ConsumeItems
    \/ ApplyReturn

ApplySpec == Init /\ [][ApplyNext]_vars

\* ------------------------- claims on applicability and consumption

\* can_apply_condition answers True for line i of the basket.
CanApply(i) ==
    LET r == can_apply_condition(applyLines[i], applyFetch) IN
    r.raised = "none" /\ r.value = TRUE

\* The lines get_applicable_lines returned.
ReturnedLines == {line_tuples[k].line : k \in DOMAIN line_tuples}

\* Every returned line is returned once, with its unit price, and the prices
\* do not increase along the result.
PricedAndDescending ==
    /\ Cardinality(ReturnedLines) = Len(line_tuples)
    /\ \A k \in DOMAIN line_tuples :
        line_tuples[k].price = unit_price(applyLines[line_tuples[k].line])
    /\ \A k \in 1..(Len(line_tuples) - 1) :
        line_tuples[k].price >= line_tuples[k + 1].price

\* C21 as stated: with most_expensive_first at its default, get_applicable_lines
\* returns exactly the lines the condition can be applied to, each with its
\* unit price, by price descending.
C21_ApplicableLinesDescending ==
    (applyPc = "applicable" /\ most_expensive_first)
        => /\ ReturnedLines = {i \in DOMAIN applyLines : CanApply(i)}
           /\ PricedAndDescending

\* C21, amended: with most_expensive_first at its default, get_applicable_lines
\* returns exactly the lines the condition can be applied to whose unit price
\* is not zero, each with its unit price, by price descending.
C21_PricedApplicableLinesDescending ==
    (applyPc = "applicable" /\ most_expensive_first)
        => /\ ReturnedLines = {i \in DOMAIN applyLines :
                                    CanApply(i) /\ unit_price(applyLines[i]) # 0}
           /\ PricedAndDescending

\* Eligible lines priced 10, 25, 15 came back as 25, 15, 10.
C21_Witness ==
    /\ applyPc = "applicable" /\ most_expensive_first
    /\ Len(applyLines) = 3
    /\ [i \in 1..3 |-> applyLines[i].price] = <<10, 25, 15>>
    /\ line_tuples = <<[price |-> 25, line |-> 2], [price |-> 15, line |-> 3],
                       [price |-> 10, line |-> 1]>>

\* The applicable SKUs of a program as the SKUs of the seats, of any course
\* run of any course, whose type is an applicable seat type.
ProgramSeatSkus(p) ==
    {sku \in Skus :
        \E c \in DOMAIN p.courses : \E r \in DOMAIN p.courses[c].course_runs :
            \E seat \in p.courses[c].course_runs[r].seats :
                seat.sku = sku /\ seat.type \in p.applicable_seat_types}

\* C22: can_apply_condition answers False for a line without a stock record,
\* whatever get_program does, and, get_program having answered, True exactly
\* for the lines with a stock record whose SKU is an applicable SKU of the
\* program and whose product is discountable; get_applicable_lines returns
\* only lines it answered True for.
C22_CanApplyCondition ==
    (applyPc # "idle") =>
        /\ \A i \in DOMAIN applyLines :
            LET line == applyLines[i]
                r == can_apply_condition(line, applyFetch)
            IN /\ line.stockrecord = NoStockrecord
                    => (r.raised = "none" /\ r.value = FALSE)
               /\ applyFetch.error = "none"
                    => /\ r.raised = "none"
                       /\ r.value = ( /\ line.stockrecord # NoStockrecord
                                      /\ line.stockrecord \in ProgramSeatSkus(applyFetch.program)
                                      /\ line.discountable )
        /\ \A i \in ReturnedLines : CanApply(i)

\* A basket with the audit seat of CS1 under a program of verified seats only,
\* a verified seat that is not discountable (both refused), and a verified
\* seat that is accepted.
C22_Witness ==
    /\ applyPc = "applicable"
    /\ applyFetch.program.applicable_seat_types = {"verified"}
    /\ \E i, j, k \in DOMAIN applyLines :
        /\ applyLines[i].stockrecord = "s1a" /\ ~CanApply(i)
        /\ applyLines[j].stockrecord = "s2" /\ ~applyLines[j].discountable /\ ~CanApply(j)
        /\ applyLines[k].stockrecord = "s1" /\ CanApply(k) /\ k \in ReturnedLines

\* C23: a call of consume_items consumes Min(quantity_without_discount, 1)
\* units of each affected line: at most one, none of a line with nothing
\* left, never more than what is left; the other lines are untouched.
C23_ConsumeAtMostOne ==
    [][(applications' = applications + 1) =>
        /\ DOMAIN applyLines' = DOMAIN applyLines
        /\ \A i \in DOMAIN applyLines :
            LET left == applyLines[i].quantity - applyLines[i].consumed
                d == applyLines'[i].consumed - applyLines[i].consumed
            IN /\ applyLines'[i] = [applyLines[i] EXCEPT !.consumed = @ + d]
               /\ i \in affected_lines' => d = Min(left, 1)
               /\ i \notin affected_lines' => d = 0
               /\ d >= 0 /\ d <= 1 /\ d <= left
               /\ left = 0 => d = 0]_vars

\* After two applications: a line of quantity two consumed once each time, a
\* line of quantity one that had nothing left for one of them, and a line
\* that was not affected.
C23_Witness ==
    /\ applications = 2
    /\ \E i, j \in affected_lines :
        /\ applyLines[i].quantity = 2 /\ applyLines[i].consumed = 2
        /\ applyLines[j].quantity = 1 /\ applyLines[j].consumed = 1
    /\ \E k \in DOMAIN applyLines : k \notin affected_lines /\ applyLines[k].consumed = 0

\* ------------------------------------------- the post_checkout receivers
\* track_completed_order and send_course_purchase_email
\* (extensions/checkout/signals.py) and process_checkout_complete
\* (sailthru/signals.py).  The decorator silence_exceptions
\* (extensions/analytics/utils.py) is not part of the files modelled here; it
\* is modelled from the written specification (section 4.4).

\* Number of lines of an order.
MaxOrderLines == 2

\* ORDER_LINE_COUNT, line 16 of checkout/signals.py
ORDER_LINE_COUNT == 1

\* The receivers of post_checkout.
Handlers == {"track_completed_order", "send_course_purchase_email",
             "process_checkout_complete"}

\* The products of an order line: a verified seat, a credit seat with its
\* provider, a coupon and an enrollment code.
Products ==
    {[class |-> "seat", credit_provider |-> "none"],
     [class |-> "seat", credit_provider |-> "p1"],
     [class |-> "coupon", credit_provider |-> "none"],
     [class |-> "enrollment_code", credit_provider |-> "none"]}

is_coupon_product(product) == product.class = "coupon"

is_enrollment_code_product(product) == product.class = "enrollment_code"

is_seat_product(product) == product.class = "seat"

\* product.attr.certificate_type is an attribute of seats only; reading it on
\* another product raises AttributeError.
HasCertificateType(product) == product.class = "seat"

\* order.total_excl_tax: nothing or something to pay (the total of an order is
\* never negative).
Totals == {0, 10}

\* order.lines.all(): at least one line.
OrderLines(n) == UNION {[1..k -> Products] : k \in 1..n}

Orders == {[total_excl_tax |-> t, lines |-> l] : t \in Totals, l \in OrderLines(MaxOrderLines)}

Flags == [ENABLE_NOTIFICATIONS : BOOLEAN, SAILTHRU_ENABLE : BOOLEAN]

\* What a call to an external service does: it returns, or it raises.
CallOutcomes == {"none", "Exception"}

\* What get_credit_provider_details does: it returns the details of the
\* provider, returns nothing, or raises.
LookupOutcomes == {"data", "nothing", "Exception"}

\* silence_exceptions that lets the exception through.
silence_exceptions_Reraise(exc) == exc

\* silence_exceptions: the exception raised in the decorated receiver is
\* logged and does not leave the receiver.
silence_exceptions(exc) == "none"

\* track_completed_order that looks at the total only.
TrackSkipped_TotalOnly(o) == o.total_excl_tax <= 0

\* checkout/signals.py, lines 23-28: the order is not tracked.
TrackSkipped(o) ==
    \/ o.total_excl_tax <= 0
    \/ \E i \in DOMAIN o.lines :
        is_coupon_product(o.lines[i]) \/ is_enrollment_code_product(o.lines[i])

\* lines 33-53: the properties of the event, with one descriptor per line.
EventProperties(o) ==
    [event |-> "Order Completed",
     total |-> o.total_excl_tax,
     products |-> [i \in DOMAIN o.lines |-> o.lines[i].class]]

\* send_course_purchase_email that does not count the lines.
EmailDecision_AnyLineCount(o, flags) ==
    IF ~flags.ENABLE_NOTIFICATIONS THEN "off"
    ELSE IF o.lines[1].credit_provider = "none" THEN "no_provider"
    ELSE IF is_seat_product(o.lines[1]) THEN "lookup"
    ELSE "nothing"

\* send_course_purchase_email that does not look for the provider id.
EmailDecision_NoProviderCheck(o, flags) ==
    IF ~flags.ENABLE_NOTIFICATIONS THEN "off"
    ELSE IF Len(o.lines) # ORDER_LINE_COUNT THEN "unsupported"
    ELSE IF is_seat_product(o.lines[1]) THEN "lookup"
    ELSE "nothing"

\* checkout/signals.py, lines 61-71 and 96-97: what
\* send_course_purchase_email does with the order.
EmailDecision(o, flags) ==
    IF ~flags.ENABLE_NOTIFICATIONS THEN "off"
    ELSE IF Len(o.lines) # ORDER_LINE_COUNT THEN "unsupported"
    ELSE IF o.lines[1].credit_provider = "none" THEN "no_provider"
    ELSE IF is_seat_product(o.lines[1]) THEN "lookup"
    ELSE "nothing"

\* sailthru/signals.py, lines 25-34: process_checkout_complete returns at once.
SailthruSkipped(o, flags) ==
    \/ ~flags.SAILTHRU_ENABLE
    \/ o.total_excl_tax = 0

\* The signal is sent for a committed order.
PostCheckout ==
    /\ sigPc = "idle"
    /\ \E o \in Orders, flags \in Flags :
        /\ sigOrder' = o
        /\ sigFlags' = flags
    /\ sigPc' = "dispatching"
    /\ ran' = <<>>
    /\ handlerRaised' = {}
    /\ surfaced' = "none"
    /\ tracked' = <<>>
    /\ lookups' = <<>>
    /\ notified' = <<>>
    /\ dispatched' = <<>>
    /\ logged' = {}
    /\ UNCHANGED <<dbVars, viewVars, condVars, applyVars, sdnVars, addVars, previewVars>>

\* The receiver h has run and exc ("none" for none) was raised in its body:
\* the decorator decides what leaves the receiver; an exception that leaves
\* it ends the dispatch and reaches the sender.
ReceiverDone(h, exc) ==
    /\ ran' = Append(ran, h)
    /\ handlerRaised' = IF exc # "none" THEN handlerRaised \cup {h} ELSE handlerRaised
    /\ surfaced' = silence_exceptions(exc)
    /\ sigPc' = IF silence_exceptions(exc) # "none" \/ Len(ran) + 1 = Cardinality(Handlers)
                THEN "returned" ELSE "dispatching"

ReceiverEnabled(h) ==
    /\ sigPc = "dispatching"
    /\ \A k \in DOMAIN ran : ran[k] # h

\* checkout/signals.py, lines 19-54
TrackCompletedOrder ==
    /\ ReceiverEnabled("track_completed_order")
    /\ IF TrackSkipped(sigOrder)
       THEN /\ tracked' = tracked
            /\ logged' = logged
            /\ ReceiverDone("track_completed_order", "none")
       ELSE \E exc \in CallOutcomes :
            /\ tracked' = Append(tracked, EventProperties(sigOrder))
            /\ logged' = IF exc # "none"
                         THEN logged \cup {"Failed to emit tracking event"}
                         ELSE logged
            /\ ReceiverDone("track_completed_order", exc)
    /\ UNCHANGED <<sigOrder, sigFlags, lookups, notified, dispatched>>
    /\ UNCHANGED <<dbVars, viewVars, condVars, applyVars, sdnVars, addVars, previewVars>>

\* checkout/signals.py, lines 57-97
SendCoursePurchaseEmail ==
    /\ ReceiverEnabled("send_course_purchase_email")
    /\ LET decision == EmailDecision(sigOrder, sigFlags) IN
        IF decision = "lookup"
        THEN \E found \in LookupOutcomes :
            /\ lookups' = Append(lookups, [credit_provider_id |-> sigOrder.lines[1].credit_provider,
                                           found |-> found])
            /\ IF found = "data"
               THEN \E exc \in CallOutcomes :
                    /\ notified' = Append(notified, "CREDIT_RECEIPT")
                    /\ logged' = IF exc # "none"
                                 THEN logged \cup {"Failed to send order completion email"}
                                 ELSE logged
                    /\ ReceiverDone("send_course_purchase_email", exc)
               ELSE /\ notified' = notified
                    /\ logged' = IF found = "Exception"
                                 THEN logged \cup {"Failed to send order completion email"}
                                 ELSE logged
                    /\ ReceiverDone("send_course_purchase_email",
                                    IF found = "Exception" THEN "Exception" ELSE "none")
        ELSE /\ lookups' = lookups
             /\ notified' = notified
             /\ logged' = CASE decision = "no_provider" ->
                                logged \cup {"error: Credit seat product has no provider"}
                            [] decision = "unsupported" ->
                                logged \cup {"info: receipt emails for order with one item"}
                            [] OTHER -> logged
             /\ ReceiverDone("send_course_purchase_email", "none")
    /\ UNCHANGED <<sigOrder, sigFlags, tracked, dispatched>>
    /\ UNCHANGED <<dbVars, viewVars, condVars, applyVars, sdnVars, addVars, previewVars>>

\* sailthru/signals.py, lines 17-45
ProcessCheckoutComplete ==
    /\ ReceiverEnabled("process_checkout_complete")
    /\ IF SailthruSkipped(sigOrder, sigFlags)
       THEN /\ dispatched' = dispatched
            /\ logged' = logged
            /\ ReceiverDone("process_checkout_complete", "none")
       ELSE IF ~HasCertificateType(sigOrder.lines[1])
       THEN /\ dispatched' = dispatched
            /\ logged' = logged \cup {"Failed to call Sailthru"}
            /\ ReceiverDone("process_checkout_complete", "AttributeError")
       ELSE \E exc \in CallOutcomes :
            /\ dispatched' = Append(dispatched, "update_course_enrollment")
            /\ logged' = IF exc # "none" THEN logged \cup {"Failed to call Sailthru"}
                         ELSE logged
            /\ ReceiverDone("process_checkout_complete", exc)
    /\ UNCHANGED <<sigOrder, sigFlags, tracked, lookups, notified>>
    /\ UNCHANGED <<dbVars, viewVars, condVars, applyVars, sdnVars, addVars, previewVars>>

\* The sender of the signal goes on; the next order starts from nothing.
PostCheckoutReturn ==
    /\ sigPc = "returned"
    /\ sigPc' = "idle"
    /\ sigOrder' = NoSigOrder
    /\ sigFlags' = NoFlags
    /\ ran' = <<>>
    /\ handlerRaised' = {}
    /\ surfaced' = "none"
    /\ tracked' = <<>>
    /\ lookups' = <<>>
    /\ notified' = <<>>
    /\ dispatched' = <<>>
    /\ logged' = {}
    /\ UNCHANGED <<dbVars, viewVars, condVars, applyVars, sdnVars, addVars, previewVars>>

SignalNext ==
    \/ PostCheckout
    \/ TrackCompletedOrder
    \/ SendCoursePurchaseEmail
    \/ ProcessCheckoutComplete
    \/ PostCheckoutReturn

SignalSpec == Init /\ [][SignalNext]_vars

\* ----------------------------------- claims on the post_checkout receivers

HasRun(h) == \E k \in DOMAIN ran : ran[k] = h

\* The order has a line that is a coupon or an enrollment code.
HasCouponLine(o) ==
    \E i \in DOMAIN o.lines : o.lines[i].class \in {"coupon", "enrollment_code"}

\* C24: an exception raised inside a receiver of post_checkout never reaches
\* the sender of the signal and does not keep the other receivers from
\* running: while the signal is dispatched every receiver that has not run
\* can run, and the dispatch ends only after all three have run.
C24_ReceiversIsolated ==
    /\ surfaced = "none"
    /\ sigPc = "returned" => \A h \in Handlers : HasRun(h)
    /\ (sigPc = "dispatching" /\ ~HasRun("track_completed_order"))
            => ENABLED TrackCompletedOrder
    /\ (sigPc = "dispatching" /\ ~HasRun("send_course_purchase_email"))
            => ENABLED SendCoursePurchaseEmail
    /\ (sigPc = "dispatching" /\ ~HasRun("process_checkout_complete"))
            => ENABLED ProcessCheckoutComplete

\* An exception was raised in each of the three receivers, the first of them
\* in track_completed_order, and the dispatch ended normally.
C24_Witness ==
    /\ sigPc = "returned"
    /\ ran[1] = "track_completed_order"
    /\ handlerRaised = Handlers
    /\ Len(ran) = 3
    /\ surfaced = "none"

\* C25: track_completed_order calls track_segment_event for 'Order Completed'
\* exactly when the total of the order is positive and no line is a coupon or
\* an enrollment code, and then once, with one product descriptor per line.
C25_TrackedIffPaidCourseOrder ==
    /\ Len(tracked) <= 1
    /\ ~HasRun("track_completed_order") => tracked = <<>>
    /\ HasRun("track_completed_order") =>
        /\ (tracked # <<>>) <=> (sigOrder.total_excl_tax > 0 /\ ~HasCouponLine(sigOrder))
        /\ \A k \in DOMAIN tracked :
            /\ tracked[k].event = "Order Completed"
            /\ DOMAIN tracked[k].products = DOMAIN sigOrder.lines
            /\ \A i \in DOMAIN sigOrder.lines :
                tracked[k].products[i] = sigOrder.lines[i].class

\* A paid order of two seats was tracked with two product descriptors.
C25_Witness ==
    /\ HasRun("track_completed_order")
    /\ sigOrder.total_excl_tax > 0
    /\ Len(sigOrder.lines) = 2
    /\ Len(tracked) = 1
    /\ Len(tracked[1].products) = 2

\* C26: for an order with nothing to pay or with a coupon or enrollment-code
\* line, no event is tracked, no notification is sent and no enrollment task
\* is dispatched.
C26_SkippedOrderNoSideEffects ==
    (sigPc = "returned" /\ (sigOrder.total_excl_tax <= 0 \/ HasCouponLine(sigOrder)))
        => (tracked = <<>> /\ notified = <<>> /\ dispatched = <<>>)

\* C27 as stated: send_course_purchase_email sends CREDIT_RECEIPT whenever the
\* switch is on, the order has one line and its product has a credit
\* provider; it sends nothing when the switch is off or the order has another
\* number of lines.
C27_CreditReceiptSent ==
    HasRun("send_course_purchase_email") =>
        /\ ( /\ sigFlags.ENABLE_NOTIFICATIONS
             /\ Len(sigOrder.lines) = 1
             /\ sigOrder.lines[1].credit_provider # "none" )
            => notified = <<"CREDIT_RECEIPT">>
        /\ (~sigFlags.ENABLE_NOTIFICATIONS \/ Len(sigOrder.lines) # 1)
            => notified = <<>>

\* C27, amended: send_course_purchase_email sends CREDIT_RECEIPT whenever the
\* switch is on, the order has one line, its product is a seat with a credit
\* provider and the lookup of the provider returned its details; it sends
\* nothing when the switch is off or the order has another number of lines.
C27_CreditReceiptSentIfProviderFound ==
    HasRun("send_course_purchase_email") =>
        /\ ( /\ sigFlags.ENABLE_NOTIFICATIONS
             /\ Len(sigOrder.lines) = 1
             /\ sigOrder.lines[1].credit_provider # "none"
             /\ is_seat_product(sigOrder.lines[1])
             /\ lookups # <<>>
             /\ lookups[1].found = "data" )
            => notified = <<"CREDIT_RECEIPT">>
        /\ (~sigFlags.ENABLE_NOTIFICATIONS \/ Len(sigOrder.lines) # 1)
            => notified = <<>>

\* The receipt of a credit seat was sent after its provider was found.
C27_Witness ==
    /\ HasRun("send_course_purchase_email")
    /\ sigFlags.ENABLE_NOTIFICATIONS
    /\ Len(sigOrder.lines) = 1
    /\ lookups = <<[credit_provider_id |-> "p1", found |-> "data"]>>
    /\ notified = <<"CREDIT_RECEIPT">>

\* C28: with the switch on and a single line whose product has no credit
\* provider id, send_course_purchase_email logs an error, looks no provider
\* up, sends nothing and raises nothing.
C28_NoProviderLogsError ==
    ( /\ HasRun("send_course_purchase_email")
      /\ sigFlags.ENABLE_NOTIFICATIONS
      /\ Len(sigOrder.lines) = 1
      /\ sigOrder.lines[1].credit_provider = "none" )
        => /\ "error: Credit seat product has no provider" \in logged
           /\ lookups = <<>>
           /\ notified = <<>>
           /\ "send_course_purchase_email" \notin handlerRaised

\* The error was logged for an order of one seat without a provider.
C28_Witness ==
    /\ HasRun("send_course_purchase_email")
    /\ sigFlags.ENABLE_NOTIFICATIONS
    /\ sigOrder.lines = <<[class |-> "seat", credit_provider |-> "none"]>>
    /\ "error: Credit seat product has no provider" \in logged
    /\ lookups = <<>> /\ notified = <<>>

\* ------------------------------------------------- SDNFallbackMetadata
\* extensions/payment/models.py, lines 128-202: the rows of the table and
\* swap_all_states, which runs in one transaction (@atomic).

\* Number of rows ever inserted (imports of the SDN file).
MaxImports == 3

\* IMPORT_STATES, lines 140-144
ImportStates == {"New", "Current", "Discard"}

RowsIn(rows, import_state) == {r \in rows : r.import_state = import_state}

\* A New row is inserted whatever the table holds.
CanInsertNew_Always(rows) == TRUE

\* lines 146-152: import_state is unique and 'New' by default; a New row is
\* inserted only when the table has no New row.
CanInsertNew(rows) == RowsIn(rows, "New") = {}

\* lines 192-195: the state a row is moved to.
NextImportState(import_state) ==
    IF import_state = "New" THEN "Current" ELSE "Discard"

\* lines 180-202: _swap_state(import_state) on the rows the transaction sees:
\* the rows after it and the exception it lets through ("none" for none).
\* DoesNotExist is caught; get() raises MultipleObjectsReturned for several
\* rows, full_clean() raises ValidationError for a duplicate import_state.
swap_state(rows, import_state) ==
    LET matching == RowsIn(rows, import_state) IN
    IF matching = {}
    THEN [rows |-> rows, raised |-> "none"]
    ELSE IF Cardinality(matching) > 1
    THEN [rows |-> rows, raised |-> "MultipleObjectsReturned"]
    ELSE LET existing_metadata == CHOOSE r \in matching : TRUE IN
         IF import_state = "Discard"
         THEN [rows |-> rows \ {existing_metadata}, raised |-> "none"]
         ELSE IF RowsIn(rows \ {existing_metadata}, NextImportState(import_state)) # {}
         THEN [rows |-> rows, raised |-> "ValidationError"]
         ELSE [rows |-> (rows \ {existing_metadata})
                            \cup {[existing_metadata EXCEPT
                                    !.import_state = NextImportState(import_state)]},
               raised |-> "none"]

\* The calls of _swap_state with New before Current.
NextSwapPc_NewBeforeCurrent(import_state) ==
    CASE import_state = "Discard" -> "New"
      [] import_state = "New" -> "Current"
      [] import_state = "Current" -> "check"

\* lines 168-170: the position after _swap_state(import_state).
NextSwapPc(import_state) ==
    CASE import_state = "Discard" -> "Current"
      [] import_state = "Current" -> "New"
      [] import_state = "New" -> "check"

\* The check for a Current row made for a table of any size.
NoCurrentAmongSeveral_AnySize(rows) == RowsIn(rows, "Current") = {}

\* lines 171-178: the swap raises DoesNotExist.
NoCurrentAmongSeveral(rows) ==
    Cardinality(rows) > 1 /\ RowsIn(rows, "Current") = {}

\* The table when the exception leaves the changes of the swap in place.
RolledBack_NoRollback == sdnRows

\* @atomic, line 155: the table after the transaction was rolled back: the
\* rows as they were when it began, and the rows others inserted since.
RolledBack == snapshot \cup {r \in sdnRows : r.id \in inserted}

\* A row in state New is inserted (an import of the SDN file), also while a
\* swap is under way.
InsertNew ==
    /\ nextRowId <= MaxImports
    /\ CanInsertNew(sdnRows)
    /\ sdnRows' = sdnRows \cup {[id |-> nextRowId, import_state |-> "New"]}
    /\ inserted' = IF swapPc # "idle" THEN inserted \cup {nextRowId} ELSE inserted
    /\ nextRowId' = nextRowId + 1
    /\ UNCHANGED <<swapPc, snapshot>>
    /\ UNCHANGED <<dbVars, viewVars, condVars, applyVars, signalVars, addVars, previewVars>>

\* lines 154-156: swap_all_states is called and its transaction begins.
SwapBegin ==
    /\ swapPc = "idle"
    /\ swapPc' = "Discard"
    /\ snapshot' = sdnRows
    /\ inserted' = {}
    /\ UNCHANGED <<sdnRows, nextRowId>>
    /\ UNCHANGED <<dbVars, viewVars, condVars, applyVars, signalVars, addVars, previewVars>>

\* lines 168-170: one _swap_state call.
SwapState ==
    /\ swapPc \in ImportStates
    /\ LET swapped == swap_state(sdnRows, swapPc) IN
        IF swapped.raised # "none"
        THEN /\ sdnRows' = RolledBack
             /\ swapPc' = "rolled_back"
        ELSE /\ sdnRows' = swapped.rows
             /\ swapPc' = NextSwapPc(swapPc)
    /\ UNCHANGED <<snapshot, inserted, nextRowId>>
    /\ UNCHANGED <<dbVars, viewVars, condVars, applyVars, signalVars, addVars, previewVars>>

\* lines 171-178: the check for a Current row; the transaction commits or, on
\* the exception, is rolled back.
SwapCheck ==
    /\ swapPc = "check"
    /\ IF NoCurrentAmongSeveral(sdnRows)
       THEN /\ sdnRows' = RolledBack
            /\ swapPc' = "rolled_back"
       ELSE /\ sdnRows' = sdnRows
            /\ swapPc' = "committed"
    /\ UNCHANGED <<snapshot, inserted, nextRowId>>
    /\ UNCHANGED <<dbVars, viewVars, condVars, applyVars, signalVars, addVars, previewVars>>

\* swap_all_states has returned or raised; the caller goes on.
SwapReturn ==
    /\ swapPc \in {"committed", "rolled_back"}
    /\ swapPc' = "idle"
    /\ snapshot' = {}
    /\ inserted' = {}
    /\ UNCHANGED <<sdnRows, nextRowId>>
    /\ UNCHANGED <<dbVars, viewVars, condVars, applyVars, signalVars, addVars, previewVars>>

SdnNext ==
    \/ InsertNew
    \/ SwapBegin
    \/ SwapState
    \/ SwapCheck
    \/ SwapReturn

SdnSpec == Init /\ [][SdnNext]_vars

\* ------------------------------------------ claims on SDNFallbackMetadata

\* C29: at every moment, the moments inside a swap included, the table has at
\* most one row in each import_state.
C29_OneRowPerState ==
    \A import_state \in ImportStates :
        Cardinality(RowsIn(sdnRows, import_state)) <= 1

\* Inside a swap of a table of three rows: the Discard row is deleted, the
\* Current row has become the Discard row and the New row is still New.
C29_Witness ==
    /\ swapPc = "New"
    /\ Cardinality(snapshot) = 3
    /\ Cardinality(sdnRows) = 2
    /\ \E r \in snapshot : r.import_state = "Current"
            /\ [r EXCEPT !.import_state = "Discard"] \in sdnRows
    /\ RowsIn(sdnRows, "New") # {}

\* C30: after a swap that committed and left rows in the table, one of the
\* rows is Current.
C30_CurrentAfterCommit ==
    (swapPc = "committed" /\ sdnRows # {}) => RowsIn(sdnRows, "Current") # {}

\* The rows of the table with the id of row r.
RowsOf(r) == {s \in sdnRows : s.id = r.id}

\* Row r of the table before the call is in the table as it was.
Unmoved(r) == RowsOf(r) = {r}

\* Row r of the table before the call has gone one step of
\* New -> Current -> Discard -> deleted.
AdvancedOnce(r) ==
    IF r.import_state = "Discard"
    THEN RowsOf(r) = {}
    ELSE RowsOf(r) = {[r EXCEPT !.import_state = NextImportState(r.import_state)]}

\* C32: a swap_all_states call that commits has moved every row the table
\* had when it began exactly one step, New to Current, Current to Discard,
\* Discard to deleted; and at every moment inside a call each of these rows
\* is either where it was or one step on, never further and never back.
C32_EveryRowOneStep ==
    /\ swapPc \in {"Discard", "Current", "New", "check"}
        => \A r \in snapshot : Unmoved(r) \/ AdvancedOnce(r)
    /\ swapPc = "committed" => \A r \in snapshot : AdvancedOnce(r)

\* A swap of a table with a row in each state has committed: the table now
\* has the former Current row as Discard and the former New row as Current.
C32_Witness ==
    /\ swapPc = "committed"
    /\ \A import_state \in ImportStates : RowsIn(snapshot, import_state) # {}
    /\ Cardinality(sdnRows) = 2
    /\ \A r \in snapshot : AdvancedOnce(r)

C34_AlwaysCommits ==
    /\ swapPc # "rolled_back"
    /\ swapPc = "committed"
        => Cardinality(sdnRows) <= 2 /\ RowsIn(sdnRows, "New") = {}

\* C34: from a table with at most one row in each import_state, a
\* swap_all_states call during which no row is inserted commits, and the
\* table then has at most two rows, none of them New.
C34_CommitsWithoutInsert ==
    /\ swapPc = "rolled_back" => inserted # {}
    /\ (swapPc = "committed" /\ inserted = {})
        => Cardinality(sdnRows) <= 2 /\ RowsIn(sdnRows, "New") = {}

\* A swap of a table with a row in each state has committed with no row
\* inserted meanwhile, and left two rows.
C34_Witness ==
    /\ swapPc = "committed"
    /\ inserted = {}
    /\ Cardinality(snapshot) = 3
    /\ Cardinality(sdnRows) = 2
    /\ RowsIn(sdnRows, "New") = {}

\* ------------------------------------------- MobileBasketAddItemsView
\* extensions/iap/api/v1/views.py, lines 41-97.

\* Number of sku parameters of a request.
MaxSkus == 2

\* get_partner_for_site(request)
SitePartner == "edx"

\* The products with their stock records: two of the partner of the site,
\* one of another partner.
CatalogueProducts ==
    {[id |-> 1, partner_sku |-> "A1", partner |-> "edx"],
     [id |-> 2, partner_sku |-> "B2", partner |-> "edx"],
     [id |-> 3, partner_sku |-> "C3", partner |-> "other"]}

\* The values a sku parameter of the query string can have: the SKUs of the
\* products, a SKU of no product, and a value with a character that HTML
\* escaping changes.
RawSkus == {"A1", "B2", "C3", "Z9", "A1&B2"}

\* django.utils.html.escape on these values: & becomes &amp;
escape(sku) == IF sku = "A1&B2" THEN "A1&amp;B2" ELSE sku

\* The requests: the sku parameters (no, one or several values), and the
\* products the strategy of the request finds available to buy.
AddRequests ==
    {[skus |-> q, available_to_buy |-> a] :
        q \in UNION {[1..k -> RawSkus] : k \in 0..MaxSkus},
        a \in SUBSET {p.id : p \in CatalogueProducts}}

\* lines 73-77: the escaped SKUs; no SKU is a bad request.
get_skus(request) == [i \in DOMAIN request.skus |-> escape(request.skus[i])]

\* lines 79-84: the products of the partner of the site with one of the SKUs.
get_products(skus) ==
    {p \in CatalogueProducts :
        p.partner = SitePartner /\ \E i \in DOMAIN skus : p.partner_sku = skus[i]}

\* _get_available_products that excludes nothing.
get_available_products_NoExclude(request, products) == products

\* lines 86-97: the products without those not available to buy.
get_available_products(request, products) ==
    {p \in products : p.id \in request.available_to_buy}

\* lines 52-58 and 70-71: the BadRequestException raised before
\* prepare_basket, "none" if none is.
BadRequest(request) ==
    IF get_skus(request) = <<>> THEN "No SKUs provided."
    ELSE IF get_products(get_skus(request)) = {} THEN "Products do not exist."
    ELSE IF get_available_products(request, get_products(get_skus(request))) = {}
    THEN "No product is available to buy."
    ELSE "none"

\* lines 47-58, 70-71: the view is called; the request is rejected or its
\* available products go on to prepare_basket.
AddItemsGet ==
    /\ addPc = "idle"
    /\ \E request \in AddRequests :
        /\ addReq' = request
        /\ IF BadRequest(request) # "none"
           THEN /\ addPc' = "responded"
                /\ addResp' = [status |-> 400, body |-> BadRequest(request)]
                /\ available_products' = {}
           ELSE /\ addPc' = "prepare_basket"
                /\ addResp' = [status |-> 0, body |-> "none"]
                /\ available_products' =
                        get_available_products(request, get_products(get_skus(request)))
    /\ basketBefore' = mobileBasket
    /\ prepared' = <<>>
    /\ UNCHANGED mobileBasket
    /\ UNCHANGED <<dbVars, viewVars, condVars, applyVars, signalVars, sdnVars, previewVars>>

\* lines 60-68: prepare_basket puts the products in the basket of the user,
\* or finds them purchased already.
PrepareBasket ==
    /\ addPc = "prepare_basket"
    /\ prepared' = Append(prepared, available_products)
    /\ \/ /\ mobileBasket' = {p.id : p \in available_products}
          /\ addResp' = [status |-> 200, body |-> "Course added to the basket successfully"]
       \/ /\ mobileBasket' = mobileBasket
          /\ addResp' = [status |-> 406, body |-> "You have already purchased these products"]
    /\ addPc' = "responded"
    /\ UNCHANGED <<addReq, available_products, basketBefore>>
    /\ UNCHANGED <<dbVars, viewVars, condVars, applyVars, signalVars, sdnVars, previewVars>>

\* The response was sent.
AddItemsReturn ==
    /\ addPc = "responded"
    /\ addPc' = "idle"
    /\ addReq' = [skus |-> <<>>, available_to_buy |-> {}]
    /\ addResp' = [status |-> 0, body |-> "none"]
    /\ available_products' = {}
    /\ prepared' = <<>>
    /\ basketBefore' = mobileBasket
    /\ UNCHANGED mobileBasket
    /\ UNCHANGED <<dbVars, viewVars, condVars, applyVars, signalVars, sdnVars, previewVars>>

AddNext ==
    \/ AddItemsGet
    \/ PrepareBasket
    \/ AddItemsReturn

AddSpec == Init /\ [][AddNext]_vars

\* ------------------------------------- claims on MobileBasketAddItemsView

\* The products of the partner of the site that one of the sku parameters of
\* the request names.
MatchingProducts ==
    {p \in CatalogueProducts :
        p.partner = SitePartner /\ \E i \in DOMAIN addReq.skus : p.partner_sku = addReq.skus[i]}

\* The request has no SKUs, or they match no product of the partner, or no
\* matching product is available to buy.
NothingToBuy ==
    \/ addReq.skus = <<>>
    \/ MatchingProducts = {}
    \/ \A p \in MatchingProducts : p.id \notin addReq.available_to_buy

\* C31: a request with no SKUs, with SKUs that match no product of the
\* partner of the site, or with no matching product available to buy is
\* answered with status 400 without prepare_basket being called and with the
\* basket as it was; and prepare_basket is never given a product that is not
\* available to buy.
C31_BadRequestRejected ==
    /\ (addPc # "idle" /\ NothingToBuy)
        => /\ addPc = "responded"
           /\ addResp.status = 400
           /\ prepared = <<>>
           /\ mobileBasket = basketBefore
    /\ \A k \in DOMAIN prepared : \A p \in prepared[k] : p.id \in addReq.available_to_buy
    /\ \A pid \in mobileBasket \ basketBefore : pid \in addReq.available_to_buy

\* A request naming an available and an unavailable product of the partner
\* was served with the available one only; and a request naming only the
\* unavailable one is rejected.
C31_Witness ==
    /\ addPc = "responded"
    /\ addReq.skus = <<"A1", "B2">>
    /\ addReq.available_to_buy = {1}
    /\ prepared = <<{[id |-> 1, partner_sku |-> "A1", partner |-> "edx"]}>>
    /\ addResp.status = 200

\* ------------------------------------------------ CatalogViewSet.preview
\* extensions/api/v2/views/catalog.py, lines 26-66.

\* Number of pages of course runs the view requests for one preview.
MaxPages == 3

\* request.GET.get('query'), request.GET.get('seat_types'): "none" for a
\* parameter that is not given.
Queries == {"none", "", "org:edX"}

SeatTypeParams == {"none", "", "verified", "audit", "verified,audit"}

\* Python's truth of a parameter and of response['next'].
Truthy(v) == v \notin {"none", ""}

\* line 44: seat_types.split(',')
split(seat_types) ==
    IF seat_types = "verified,audit" THEN <<"verified", "audit">> ELSE <<seat_types>>

\* Course.objects: the courses of the database, with the type the
\* serializer gives them.  The catalog service knows a course run c3 that
\* the database has no course for.
CourseRows == {[id |-> "c1", type |-> "verified"], [id |-> "c2", type |-> "audit"]}

\* The pages the catalog service answers with: the keys of the results and
\* the link to the next page, if any.
PageResponses ==
    {[results |-> r, next |-> n] :
        r \in {<<>>, <<"c1">>, <<"c2">>, <<"c1", "c3">>}, n \in {"none", "url"}}

\* line 63: the exceptions of the catalog call that preview catches.
CatalogErrors == {"ConnectionError", "SlumberBaseException", "Timeout"}

\* line 65 and 66: Response(status=400), without data.
BadRequestResponse == [status |-> 400, data |-> "none"]

\* The elements of a sequence.
Elements(q) == {q[i] : i \in DOMAIN q}

\* The page requested next is the same page again.
NextPage_SamePage(pg, next) == IF Truthy(next) THEN pg ELSE 0

\* lines 53-56: the page requested next; 0 for None, which ends the loop.
NextPage(pg, next) == IF Truthy(next) THEN pg + 1 ELSE 0

\* lines 57-62: the courses of the database with one of the ids, of one of
\* the seat types.
PreviewData(ids, seat_types) ==
    {course \in CourseRows : course.id \in Elements(ids) /\ course.type \in Elements(seat_types)}

\* lines 40-45 and 66: preview is called; without a query or without seat
\* types it answers at once.
Preview ==
    /\ prevPc = "idle"
    /\ \E query \in Queries, seat_types \in SeatTypeParams :
        /\ prevReq' = [query |-> query, seat_types |-> seat_types]
        /\ IF Truthy(query) /\ Truthy(seat_types)
           THEN /\ prevPc' = "fetch"
                /\ page' = 1
                /\ prevResp' = [status |-> 0, data |-> "none"]
           ELSE /\ prevPc' = "responded"
                /\ page' = 0
                /\ prevResp' = BadRequestResponse
    /\ course_ids' = <<>>
    /\ fetched' = <<>>
    /\ UNCHANGED <<dbVars, viewVars, condVars, applyVars, signalVars, sdnVars, addVars>>

\* lines 47-56 and 63-65: one page of course runs is requested; its keys are
\* kept, and the loop goes on to the next page or ends; an exception of the
\* call ends the view.
FetchPage ==
    /\ prevPc = "fetch"
    /\ page # 0
    /\ page <= MaxPages
    /\ \/ \E response \in PageResponses :
            /\ fetched' = Append(fetched, [page |-> page, outcome |-> "ok",
                                           results |-> response.results,
                                           next |-> response.next])
            /\ course_ids' = course_ids \o response.results
            /\ page' = NextPage(page, response.next)
            /\ prevPc' = IF NextPage(page, response.next) # 0 THEN "fetch" ELSE "serialize"
            /\ prevResp' = prevResp
       \/ \E e \in CatalogErrors :
            /\ fetched' = Append(fetched, [page |-> page, outcome |-> e,
                                           results |-> <<>>, next |-> "none"])
            /\ prevResp' = BadRequestResponse
            /\ prevPc' = "responded"
            /\ UNCHANGED <<course_ids, page>>
    /\ UNCHANGED prevReq
    /\ UNCHANGED <<dbVars, viewVars, condVars, applyVars, signalVars, sdnVars, addVars>>

\* lines 57-62: the courses are read, serialized and filtered by seat type.
PreviewSerialize ==
    /\ prevPc = "serialize"
    /\ prevResp' = [status |-> 200,
                    data |-> PreviewData(course_ids, split(prevReq.seat_types))]
    /\ prevPc' = "responded"
    /\ UNCHANGED <<prevReq, page, course_ids, fetched>>
    /\ UNCHANGED <<dbVars, viewVars, condVars, applyVars, signalVars, sdnVars, addVars>>

\* The response was returned.
PreviewReturn ==
    /\ prevPc = "responded"
    /\ prevPc' = "idle"
    /\ prevReq' = [query |-> "none", seat_types |-> "none"]
    /\ page' = 0
    /\ course_ids' = <<>>
    /\ fetched' = <<>>
    /\ prevResp' = [status |-> 0, data |-> "none"]
    /\ UNCHANGED <<dbVars, viewVars, condVars, applyVars, signalVars, sdnVars, addVars>>

PreviewNext ==
    \/ Preview
    \/ FetchPage
    \/ PreviewSerialize
    \/ PreviewReturn

PreviewSpec == Init /\ [][PreviewNext]_vars

\* The view goes on whenever it can: it is the one thread of a request.
PreviewFairSpec == PreviewSpec /\ WF_vars(PreviewNext)

\* ------------------------------------------ claims on CatalogViewSet.preview

\* The keys of the results of all pages fetched.
FetchedKeys == UNION {Elements(fetched[i].results) : i \in DOMAIN fetched}

\* The seat types the seat_types parameter of the request names.
RequestedTypes ==
    {t \in {"verified", "audit"} :
        prevReq.seat_types = t \/ prevReq.seat_types = "verified,audit"}

\* The request lacks the query or the seat types.
ParameterMissing ==
    prevReq.query \in {"none", ""} \/ prevReq.seat_types \in {"none", ""}

\* The catalog service answered every page so far with a link to a next one.
AllHadNext ==
    \A i \in DOMAIN fetched : fetched[i].outcome = "ok" /\ fetched[i].next = "url"

\* The last page fetched is the first one without a link to a next one.
EndedAtFirstLastPage ==
    /\ fetched # <<>>
    /\ fetched[Len(fetched)].outcome = "ok" /\ fetched[Len(fetched)].next = "none"
    /\ \A i \in 1..(Len(fetched) - 1) : fetched[i].outcome = "ok" /\ fetched[i].next = "url"

\* What holds of the pages at every moment of a preview.
PreviewPages ==
    /\ \A i \in DOMAIN fetched : fetched[i].page = i
    /\ prevPc = "fetch" => AllHadNext /\ page = Len(fetched) + 1 /\ prevResp.status = 0
    /\ (prevPc = "serialize" \/ prevResp.status = 200) => EndedAtFirstLastPage
    /\ prevResp.status = 200
        => prevResp.data = {course \in CourseRows :
                                course.id \in FetchedKeys /\ course.type \in RequestedTypes}
    /\ (fetched # <<>> /\ fetched[Len(fetched)].outcome \in CatalogErrors)
        => prevPc = "responded" /\ prevResp.status = 400 /\ prevResp.data = "none"
    /\ (prevPc # "idle" /\ ParameterMissing)
        => prevPc = "responded" /\ prevResp.status = 400 /\ prevResp.data = "none"
            /\ fetched = <<>>

\* C39: preview requests the pages 1, 2, 3, ... in this order, goes on as
\* long as the pages have a next page and stops at the first page without
\* one; its response is made of the keys of all pages fetched; once a page
\* without a next page has arrived the view responds, and before that it
\* responds only to an error; an error of the catalog call on any page gives
\* status 400 without data, and a missing query or seat_types gives status
\* 400 without a catalog call.
C39_PreviewPagination ==
    /\ []PreviewPages
    /\ (prevPc = "serialize") ~> (prevPc = "responded" /\ prevResp.status = 200)
    /\ [][prevPc = "fetch" /\ prevPc' = "responded" => prevResp'.status = 400]_vars

\* A preview fetched three pages, the last one without a next page, and
\* answered with a course of the first page.
C39_Witness ==
    /\ prevPc = "responded"
    /\ prevResp.status = 200
    /\ Len(fetched) = 3
    /\ fetched[1].results = <<"c1">>
    /\ prevResp.data # {}

=============================================================================
